---- MODULE Spec2Model ----
(***************************************************************************)
(* A model of the 2D forest traversal engine of p4est                      *)
(* (src/src/p4est_iterate.c compiled without P4_TO_P8): the tier cache,    *)
(* the corner, face and volume assemblers and the top-level driver.        *)
(***************************************************************************)
EXTENDS Integers, Sequences, FiniteSets, TLC

(***************************************************************************)
(* Bounds of the model.                                                    *)
(***************************************************************************)
\* deepest refinement level a quadrant may have (29 in the library)
QMAXLEVEL == 2
\* number of refinement operations applied to the root forest
NRefine == 2
\* no traversal of a forest within these bounds takes as many steps
MaxSteps == 400
\* the calls of p4est_abort that are in progress at a time: the first one and
\* those made by the signal handler while an earlier one has not finished
MaxNest == 2
\* the length of the arrays of p4est_int64_lower_bound that are tried with
\* every position of their entries
MaxSize == 4

(***************************************************************************)
(* Program constants.                                                      *)
(***************************************************************************)
P4EST_DIM == 2
P4EST_CHILDREN == 4
P4EST_MAXLEVEL == QMAXLEVEL + 1
P4EST_ITER_STRIDE == P4EST_CHILDREN + 1
NULL == <<>>

RECURSIVE Pow2(_)
Pow2(n) == IF n <= 0 THEN 1 ELSE 2 * Pow2(n - 1)

P4EST_ROOT_LEN == Pow2(P4EST_MAXLEVEL)
P4EST_QUADRANT_LEN(l) == Pow2(P4EST_MAXLEVEL - l)

Min(a, b) == IF a < b THEN a ELSE b
\* a variant of Max that takes the smaller value
MaxSmaller(a, b) == IF a > b THEN b ELSE a
Max(a, b) == IF a > b THEN a ELSE b

(***************************************************************************)
(* Quadrants: anchor coordinates and level.                                *)
(***************************************************************************)
Quad(x, y, l) == [x |-> x, y |-> y, level |-> l]

\* the bits of x and y interleaved, y above x: the position on the z-curve
RECURSIVE Morton(_, _, _)
Morton(x, y, n) ==
  IF n = 0 THEN 0
  ELSE (x % 2) + 2 * (y % 2) + 4 * Morton(x \div 2, y \div 2, n - 1)

p4est_quadrant_compare(q, r) ==
  LET mq == Morton(q.x, q.y, P4EST_MAXLEVEL)
      mr == Morton(r.x, r.y, P4EST_MAXLEVEL)
  IN  IF mq < mr THEN -1
      ELSE IF mq > mr THEN 1
      ELSE IF q.level < r.level THEN -1
      ELSE IF q.level > r.level THEN 1
      ELSE 0

\* x & (-1 << (P4EST_MAXLEVEL - level))
MaskTo(x, level) == x - (x % P4EST_QUADRANT_LEN(level))

p4est_quadrant_is_equal(q, r) ==
  q.level = r.level /\ q.x = r.x /\ q.y = r.y

p4est_quadrant_is_ancestor(q, r) ==
  /\ q.level < r.level
  /\ MaskTo(r.x, q.level) = q.x
  /\ MaskTo(r.y, q.level) = q.y

p4est_quadrant_ancestor_id(q, level) ==
  LET h == P4EST_QUADRANT_LEN(level)
  IN  IF level = 0 THEN 0
      ELSE ((q.x \div h) % 2) + 2 * ((q.y \div h) % 2)

p4est_quadrant_child_id(q) == p4est_quadrant_ancestor_id(q, q.level)

\* the sibling of q with child id c
p4est_quadrant_sibling(q, c) ==
  LET h == P4EST_QUADRANT_LEN(q.level)
  IN  Quad(MaskTo(q.x, q.level - 1) + (c % 2) * h,
           MaskTo(q.y, q.level - 1) + (c \div 2) * h, q.level)

p4est_quadrant_compare_contains(q, r) ==
  LET level == Min(q.level, r.level)
  IN  IF MaskTo(q.x, level) # MaskTo(r.x, level)
         \/ MaskTo(q.y, level) # MaskTo(r.y, level)
      THEN p4est_quadrant_compare(q, r)
      ELSE 0

(***************************************************************************)
(* Topology tables (z-order corners; faces in z-order 0:-x 1:+x 2:-y 3:+y  *)
(* and in the counter-clockwise "rface" order 0:-y 1:+x 2:+y 3:-x).        *)
(* Sequences are 1-based: table[i + 1] is the C entry table[i].            *)
(***************************************************************************)
p4est_zface_to_rface == <<3, 1, 0, 2>>
p4est_rface_to_zface == <<2, 1, 3, 0>>
\* indexed by rface: the two corners of the face in increasing order
p4est_face_corners == <<<<0, 1>>, <<1, 3>>, <<2, 3>>, <<0, 2>>>>
\* indexed by corner: the two rfaces that meet at the corner
p4est_corner_faces == <<<<3, 0>>, <<1, 0>>, <<3, 2>>, <<1, 2>>>>

(***************************************************************************)
(* Connectivities.  A connectivity is given by the placement of its trees  *)
(* on a W x H grid of unit cells (rot = 1: the tree is turned by 180        *)
(* degrees) and by the periodicity of the grid; the neighbour of a tree     *)
(* across a face or a corner is the tree placed in the adjacent cell.       *)
(***************************************************************************)
Place(ox, oy, rot) == [ox |-> ox, oy |-> oy, rot |-> rot]
Conn(places, w, h, px, py) ==
  [place |-> places, W |-> w, H |-> h, px |-> px, py |-> py]

Connectivities ==
  << Conn(<<Place(0, 0, 0)>>, 1, 1, FALSE, FALSE),                   \* unit square
     Conn(<<Place(0, 0, 0), Place(1, 0, 0)>>, 2, 1, FALSE, FALSE),   \* brick 2 x 1
     Conn(<<Place(0, 0, 0), Place(1, 0, 1)>>, 2, 1, FALSE, FALSE),   \* second tree rotated
     Conn(<<Place(0, 0, 0)>>, 1, 1, TRUE, FALSE),                    \* periodic in x
     Conn(<<Place(0, 0, 0)>>, 1, 1, TRUE, TRUE) >>                   \* torus

NumTrees(K) == Len(K.place)
TreeIds(K) == 0 .. NumTrees(K) - 1

\* the square a quadrant of tree t covers in the plane: [x, y, len]
World(K, t, q) ==
  LET p == K.place[t + 1]
      h == P4EST_QUADRANT_LEN(q.level)
  IN  IF p.rot = 0
      THEN [x |-> p.ox * P4EST_ROOT_LEN + q.x,
            y |-> p.oy * P4EST_ROOT_LEN + q.y, len |-> h]
      ELSE [x |-> p.ox * P4EST_ROOT_LEN + P4EST_ROOT_LEN - q.x - h,
            y |-> p.oy * P4EST_ROOT_LEN + P4EST_ROOT_LEN - q.y - h, len |-> h]

\* the quadrant of tree t that covers the square w of the plane
Local(K, t, w, level) ==
  LET p == K.place[t + 1]
      lx == w.x - p.ox * P4EST_ROOT_LEN
      ly == w.y - p.oy * P4EST_ROOT_LEN
  IN  IF p.rot = 0 THEN Quad(lx, ly, level)
      ELSE Quad(P4EST_ROOT_LEN - lx - w.len, P4EST_ROOT_LEN - ly - w.len, level)

\* the tree placed on the cell (cx, cy), -1 when the cell is empty
TreeAt(K, cx, cy) ==
  LET S == {t \in TreeIds(K) : K.place[t + 1].ox = cx /\ K.place[t + 1].oy = cy}
  IN  IF S = {} THEN -1 ELSE CHOOSE t \in S : TRUE

\* the square w moved by (dx, dy) times its length, wrapped around a
\* periodic grid; NULL when it leaves the grid
Shift(K, w, dx, dy) ==
  LET PX == K.W * P4EST_ROOT_LEN
      PY == K.H * P4EST_ROOT_LEN
      nx == w.x + dx * w.len
      ny == w.y + dy * w.len
      inx == nx >= 0 /\ nx < PX
      iny == ny >= 0 /\ ny < PY
  IN  IF (~inx /\ ~K.px) \/ (~iny /\ ~K.py) THEN NULL
      ELSE [x |-> (nx + PX) % PX, y |-> (ny + PY) % PY, len |-> w.len]

\* direction of the outward normal of z-face f of tree t in the plane
FaceDir(K, t, f) ==
  LET s == IF K.place[t + 1].rot = 0 THEN 1 ELSE -1
  IN  IF f = 0 THEN <<-s, 0>> ELSE IF f = 1 THEN <<s, 0>>
      ELSE IF f = 2 THEN <<0, -s>> ELSE <<0, s>>

\* direction in which corner c of tree t points in the plane
CornerDir(K, t, c) ==
  LET s == IF K.place[t + 1].rot = 0 THEN 1 ELSE -1
  IN  <<s * (IF c % 2 = 1 THEN 1 ELSE -1), s * (IF c \div 2 = 1 THEN 1 ELSE -1)>>

\* the quadrant of the same size that lies in direction d of quadrant q of
\* tree t: [tree, quad], or NULL outside the domain
NeighborAt(K, t, q, d) ==
  LET inTree(w, nt) ==
        IF nt = -1 THEN NULL
        ELSE [tree |-> nt, quad |-> Local(K, nt, w, q.level)]
      at(w) ==
        IF w = NULL THEN NULL
        ELSE inTree(w, TreeAt(K, w.x \div P4EST_ROOT_LEN,
                              w.y \div P4EST_ROOT_LEN))
  IN  at(Shift(K, World(K, t, q), d[1], d[2]))

\* p4est_quadrant_face_neighbor_extra: the neighbour of q across rface rf
\* in the coordinates of the tree that holds it, with that tree (-1: none)
p4est_quadrant_face_neighbor_extra(K, q, t, rf) ==
  LET across(n) ==
        IF n = NULL THEN [nt |-> -1, r |-> q] ELSE [nt |-> n.tree, r |-> n.quad]
  IN  across(NeighborAt(K, t, q, FaceDir(K, t, p4est_rface_to_zface[rf + 1])))

\* conn->tree_to_face[4 * t + rf]: the rface of the neighbouring tree that
\* is glued to rface rf of tree t, plus 4 times the orientation
tree_to_face(K, t, rf) ==
  LET f == p4est_rface_to_zface[rf + 1]
      glued(n) ==
        IF n = NULL THEN rf
        ELSE LET back == CHOOSE g \in 0 .. 3 :
                           FaceDir(K, n.tree, g) =
                             <<-FaceDir(K, t, f)[1], -FaceDir(K, t, f)[2]>>
                 o == IF K.place[n.tree + 1].rot = K.place[t + 1].rot
                      THEN 0 ELSE 1
             IN  p4est_zface_to_rface[back + 1] + 4 * o
  IN  glued(NeighborAt(K, t, Quad(0, 0, 0), FaceDir(K, t, f)))

\* p4est_quadrant_corner_neighbor_extra: the quadrants diagonally opposite
\* q across corner c, each with its tree
p4est_quadrant_corner_neighbor_extra(K, q, t, c) ==
  LET diagonal(n) == IF n = NULL THEN <<>> ELSE <<n>>
  IN  diagonal(NeighborAt(K, t, q, CornerDir(K, t, c)))

(***************************************************************************)
(* Forests: the leaves of each tree, obtained from the root quadrants by   *)
(* at most NRefine refinements that keep the two-to-one balance.           *)
(***************************************************************************)
Children(q) ==
  {Quad(q.x + (i % 2) * P4EST_QUADRANT_LEN(q.level + 1),
        q.y + (i \div 2) * P4EST_QUADRANT_LEN(q.level + 1),
        q.level + 1) : i \in 0 .. 3}

IntervalTouch(a, al, b, bl, P, per) ==
  \E k \in (IF per THEN {-1, 0, 1} ELSE {0}) :
    a + k * P <= b + bl /\ b <= a + k * P + al

\* the closed squares of the two quadrants share at least a point
Touch(K, t, q, u, r) ==
  LET a == World(K, t, q)
      b == World(K, u, r)
  IN  /\ IntervalTouch(a.x, a.len, b.x, b.len, K.W * P4EST_ROOT_LEN, K.px)
      /\ IntervalTouch(a.y, a.len, b.y, b.len, K.H * P4EST_ROOT_LEN, K.py)

Balanced(K, L) ==
  \A t \in TreeIds(K), u \in TreeIds(K) :
    \A q \in L[t + 1], r \in L[u + 1] :
      Touch(K, t, q, u, r) => q.level - r.level \in {-1, 0, 1}

RefineOnce(K, L) ==
  {[L EXCEPT ![t + 1] = (L[t + 1] \ {q}) \cup Children(q)] :
     <<t, q>> \in {<<t, q>> \in TreeIds(K) \X UNION {L[i] : i \in 1 .. Len(L)} :
                     q \in L[t + 1] /\ q.level < QMAXLEVEL}}

RECURSIVE Refinements(_, _)
Refinements(K, n) ==
  IF n = 0 THEN {[t \in 1 .. NumTrees(K) |-> {Quad(0, 0, 0)}]}
  ELSE LET S == Refinements(K, n - 1)
       IN  S \cup {M \in UNION {RefineOnce(K, L) : L \in S} : Balanced(K, M)}

\* c with its lowest bit flipped
BitXorOne(c) == IF c % 2 = 0 THEN c + 1 ELSE c - 1

\* the quadrants of a set in the order of the space-filling curve
SortQuads(S) ==
  [i \in 1 .. Cardinality(S) |->
     CHOOSE q \in S :
       Cardinality({r \in S : p4est_quadrant_compare(r, q) < 0}) = i - 1]

(***************************************************************************)
(* The input of one traversal: the forest as one process sees it.  The     *)
(* process owns the leaves lo+1 .. hi of the global sequence of leaves;    *)
(* tree->quadrants holds the owned leaves of a tree, the ghost layer the   *)
(* leaves of other processes that touch an owned leaf.                     *)
(***************************************************************************)
RECURSIVE SumLens(_, _)
SumLens(seqs, n) == IF n = 0 THEN 0 ELSE Len(seqs[n]) + SumLens(seqs, n - 1)

\* the elements of a sequence at the positions in `keep`, in order
RECURSIVE Filter(_, _, _)
Filter(s, keep, i) ==
  IF i > Len(s) THEN <<>>
  ELSE (IF i \in keep THEN <<s[i]>> ELSE <<>>) \o Filter(s, keep, i + 1)

RECURSIVE Concat(_, _)
Concat(seqs, n) == IF n = 0 THEN <<>> ELSE Concat(seqs, n - 1) \o seqs[n]

MakeForest(K, L, lo, hi, withGhost) ==
  LET n == NumTrees(K)
      all == [t \in 1 .. n |-> SortQuads(L[t])]
      owned(t, i) == LET g == SumLens(all, t - 1) + i IN lo < g /\ g <= hi
      quadrants == [t \in 1 .. n |->
                      LET keep == {i \in 1 .. Len(all[t]) : owned(t, i)}
                      IN  Filter(all[t], keep, 1)]
      touches(t, i) ==
        /\ ~owned(t, i)
        /\ \E u \in 1 .. n : \E j \in 1 .. Len(all[u]) :
             owned(u, j) /\ Touch(K, t - 1, all[t][i], u - 1, all[u][j])
      ghostsOf == [t \in 1 .. n |->
                     LET keep == {i \in 1 .. Len(all[t]) :
                                    withGhost /\ touches(t, i)}
                     IN  Filter(all[t], keep, 1)]
      localTrees == {t \in 1 .. n : Len(quadrants[t]) > 0}
  IN  [conn |-> K,
       leaves |-> all,
       quadrants |-> quadrants,
       ghost_layer |-> Concat(ghostsOf, n),
       \* the offsets p4est_split_ghost_layer_by_tree computes
       tree_first_ghost |-> [t \in 1 .. n + 1 |-> SumLens(ghostsOf, t - 1)],
       first_local_tree |-> IF localTrees = {} THEN -1
                            ELSE (CHOOSE t \in localTrees :
                                    \A u \in localTrees : t <= u) - 1,
       last_local_tree |-> IF localTrees = {} THEN -2
                           ELSE (CHOOSE t \in localTrees :
                                   \A u \in localTrees : t >= u) - 1,
       mpisize |-> IF lo = 0 /\ hi = SumLens(all, n) THEN 1 ELSE 2]

\* the partitions of the model, <<lo, hi, withGhost>>: the whole forest on
\* one process; a prefix of the leaves (the first of two processes, possibly
\* owning nothing) with the ghost layer or with none; a suffix of the leaves
\* (the last of two processes) with the ghost layer
Partitions(nleaves) ==
  {<<0, nleaves, TRUE>>}
  \cup {<<0, hi, g>> : hi \in 0 .. nleaves - 1, g \in BOOLEAN}
  \cup {<<lo, nleaves, TRUE>> : lo \in 1 .. nleaves - 1}

ForestsOf(K) ==
  UNION {{MakeForest(K, L, r[1], r[2], r[3]) :
            r \in Partitions(Cardinality(UNION {L[i] : i \in 1 .. Len(L)}))} :
         L \in Refinements(K, NRefine)}

Forests == UNION {ForestsOf(Connectivities[k]) : k \in 1 .. Len(Connectivities)}

(***************************************************************************)
(* Arrays and pointers.  loop_args->quadrants[sidetype] names an array:    *)
(* the quadrants of tree t (the number t) or the ghost layer; a pointer to *)
(* a quadrant is the pair of its array and its position in it.             *)
(***************************************************************************)
\* the ghost layer among the arrays of loop_args->quadrants (a tree's
\* quadrants are named by the number of the tree)
GhostArray == -1
\* an entry of loop_args->quadrants that was never assigned
UninitArray == -2
\* the content of allocated memory that was never written
Uninit == "uninit"
local == 0
ghost == 1
left == 0
right == 1

At(s, i) == s[i + 1]
Put(s, i, v) == [s EXCEPT ![i + 1] = v]

ArrayOf(p, a) == IF a = GhostArray THEN p.ghost_layer ELSE p.quadrants[a + 1]
\* sc_array_index (quadrants[sidetype], i)
Deref(p, ptr) == ArrayOf(p, ptr[1])[ptr[2] + 1]

(***************************************************************************)
(* Tier rings (lines 33-154).                                              *)
(***************************************************************************)
\* p4est_split_array: offsets of the children of the level-`level` ancestor
\* in a view of `count` quadrants starting at position `first`
p4est_split_array(arr, first, count, level) ==
  [i \in 1 .. P4EST_ITER_STRIDE |->
     Cardinality({k \in first + 1 .. first + count :
                    p4est_quadrant_ancestor_id(arr[k], level + 1) < i - 1})]

\* a variant of p4est_iter_tier_update that leaves the shift out
p4est_iter_tier_update_view(arr, first, count, level, shift) ==
  p4est_split_array(arr, first, count, level)

p4est_iter_tier_update(arr, first, count, level, shift) ==
  LET split == p4est_split_array(arr, first, count, level)
  IN  [i \in 1 .. P4EST_ITER_STRIDE |-> split[i] + shift]

\* a variant of p4est_iter_tier_rings_new whose rings have P4EST_CHILDREN
\* tiers for any number of processes
p4est_iter_tier_rings_new_single(num_procs) ==
  [i \in 1 .. QMAXLEVEL |->
     [next |-> 0,
      tiers |-> [j \in 1 .. P4EST_CHILDREN |->
                   [key |-> NULL,
                    array |-> [k \in 1 .. P4EST_ITER_STRIDE |-> Uninit]]]]]

p4est_iter_tier_rings_new(num_procs) ==
  LET tier_ring_max == IF num_procs = 1 THEN P4EST_CHILDREN
                       ELSE 2 * P4EST_CHILDREN
  IN  [i \in 1 .. QMAXLEVEL |->
         [next |-> 0,
          tiers |-> [j \in 1 .. tier_ring_max |->
                       [key |-> NULL,
                        array |-> [k \in 1 .. P4EST_ITER_STRIDE |-> Uninit]]]]]

\* a variant of TierScan that stops at empty slots only
TierScanEmpty(tiers, q, i) ==
  IF \E j \in i .. Len(tiers) - 1 : At(tiers, j).key = NULL
  THEN CHOOSE j \in i .. Len(tiers) - 1 :
         /\ At(tiers, j).key = NULL
         /\ \A k \in i .. j - 1 : At(tiers, k).key # NULL
  ELSE Len(tiers)

\* position of the first tier of the ring that ends the lookup loop: an
\* empty slot or the slot of key q; limit when there is none
RECURSIVE TierScan(_, _, _)
TierScan(tiers, q, i) ==
  IF i >= Len(tiers) THEN Len(tiers)
  ELSE IF At(tiers, i).key = NULL \/ At(tiers, i).key = q THEN i
  ELSE TierScan(tiers, q, i + 1)

\* a variant of TierVictim that always takes the first slot
TierVictimFirst(ring) == 0

\* the slot a miss in a full ring overwrites (line 148)
TierVictim(ring) == ring.next

\* the result is the five offsets written to next_tier, the rings after the
\* call, whether the split was computed, and whether the assertion held
p4est_iter_tier_insert(arr, first, count, level, shift, tier_rings, q) ==
  LET fresh == p4est_iter_tier_update(arr, first, count, level, shift)
  IN
  IF q = NULL
  THEN [next_tier |-> [i \in 1 .. P4EST_ITER_STRIDE |-> shift],
        tier_rings |-> tier_rings, computed |-> FALSE, ok |-> TRUE]
  ELSE IF level >= Len(tier_rings)
  THEN [next_tier |-> fresh, tier_rings |-> tier_rings,
        computed |-> TRUE, ok |-> TRUE]
  ELSE
    LET ring == At(tier_rings, level)
        limit == Len(ring.tiers)
        i == TierScan(ring.tiers, q, 0)
        store(slot) ==
          Put(tier_rings, level,
              [next |-> (ring.next + 1) % limit,
               tiers |-> Put(ring.tiers, slot, [key |-> q, array |-> fresh])])
    IN  IF i < limit /\ At(ring.tiers, i).key = NULL
        THEN [next_tier |-> fresh, tier_rings |-> store(i),
              computed |-> TRUE, ok |-> (ring.next = i)]
        ELSE IF i < limit
        THEN [next_tier |-> At(ring.tiers, i).array, tier_rings |-> tier_rings,
              computed |-> FALSE, ok |-> TRUE]
        ELSE [next_tier |-> fresh, tier_rings |-> store(TierVictim(ring)),
              computed |-> TRUE, ok |-> TRUE]

(***************************************************************************)
(* The iteration context (lines 156-296).                                  *)
(***************************************************************************)
\* the largest number of (tree, corner) pairs that meet at one vertex of
\* the connectivity: ctt_offset[c + 1] - ctt_offset[c]
CornerPoint(K, t, c) ==
  LET w == World(K, t, Quad(0, 0, 0))
      d == CornerDir(K, t, c)
      px == w.x + (IF d[1] > 0 THEN w.len ELSE 0)
      py == w.y + (IF d[2] > 0 THEN w.len ELSE 0)
  IN  <<IF K.px THEN px % (K.W * P4EST_ROOT_LEN) ELSE px,
        IF K.py THEN py % (K.H * P4EST_ROOT_LEN) ELSE py>>

CornerSize(K, t, c) ==
  Cardinality({tc \in TreeIds(K) \X (0 .. P4EST_CHILDREN - 1) :
                 CornerPoint(K, tc[1], tc[2]) = CornerPoint(K, t, c)})

p4est_iter_loop_args_new(conn, iter_corner, num_procs) ==
  LET largest(sizes) == CHOOSE m \in sizes : \A n \in sizes : n <= m
      max_corner_size ==
        IF iter_corner
        THEN largest({P4EST_CHILDREN}
                     \cup {CornerSize(conn, t, c) :
                             t \in TreeIds(conn), c \in 0 .. P4EST_CHILDREN - 1})
        ELSE P4EST_CHILDREN
      alloc(alloc_size) ==
        [alloc_size |-> alloc_size,
         loop_corner |-> iter_corner,
         level |-> 0,
         level_num |-> [i \in 1 .. QMAXLEVEL + 1 |-> Uninit],
         quadrants |-> [i \in 1 .. alloc_size |->
                          IF (i - 1) % 2 = 1 THEN GhostArray ELSE UninitArray],
         index |-> [i \in 1 .. alloc_size |->
                      [j \in 1 .. (QMAXLEVEL + 1) * P4EST_ITER_STRIDE |->
                         Uninit]],
         first_index |-> [i \in 1 .. alloc_size |-> Uninit],
         count |-> [i \in 1 .. alloc_size |-> Uninit],
         tier_rings |-> p4est_iter_tier_rings_new(num_procs)]
  IN  alloc(IF iter_corner THEN Max(2 * max_corner_size, 4) ELSE 4)

\* index[sidetype][pos]
Index(la, sidetype, pos) == la.index[sidetype + 1][pos + 1]

\* for every sidetype of `sides` sides: first_index and count of the search
\* area whose bounds are at position quad_idx2[side] of index[sidetype]
LoadBounds(la, sides, quad_idx2) ==
  LET st(i) == i - 1
      inside(i) == st(i) \div 2 \in sides
  IN  [la EXCEPT
        !.first_index = [i \in 1 .. la.alloc_size |->
                           IF inside(i)
                           THEN Index(la, st(i), quad_idx2[st(i) \div 2])
                           ELSE la.first_index[i]],
        !.count = [i \in 1 .. la.alloc_size |->
                     IF inside(i)
                     THEN Index(la, st(i), quad_idx2[st(i) \div 2] + 1)
                          - Index(la, st(i), quad_idx2[st(i) \div 2])
                     ELSE la.count[i]]]

\* a variant of p4est_iter_init_loop_volume whose search area leaves out the
\* last local quadrant of the tree
p4est_iter_init_loop_volume_short(la, t, p) ==
  [la EXCEPT
    !.level = 0,
    !.level_num = Put(@, 0, 0),
    !.index = [i \in 1 .. la.alloc_size |->
                 IF i <= 4
                 THEN IF (i - 1) % 2 = local
                      THEN Put(Put(@[i], 0, 0), 1,
                               Max(Len(p.quadrants[t + 1]) - 1, 0))
                      ELSE Put(Put(@[i], 0, p.tree_first_ghost[t + 1]),
                               1, p.tree_first_ghost[t + 2])
                 ELSE @[i]],
    !.quadrants = [i \in 1 .. la.alloc_size |->
                     IF i <= 4 \/ (la.loop_corner /\ i <= 2 * P4EST_CHILDREN)
                     THEN IF (i - 1) % 2 = 1 THEN GhostArray ELSE t
                     ELSE @[i]]]

p4est_iter_init_loop_volume(la, t, p) ==
  [la EXCEPT
    !.level = 0,
    !.level_num = Put(@, 0, 0),
    !.index = [i \in 1 .. la.alloc_size |->
                 IF i <= 4
                 THEN IF (i - 1) % 2 = local
                      THEN Put(Put(@[i], 0, 0), 1, Len(p.quadrants[t + 1]))
                      ELSE Put(Put(@[i], 0, p.tree_first_ghost[t + 1]),
                               1, p.tree_first_ghost[t + 2])
                 ELSE @[i]],
    !.quadrants = [i \in 1 .. la.alloc_size |->
                     IF i <= 4 \/ (la.loop_corner /\ i <= 2 * P4EST_CHILDREN)
                     THEN IF (i - 1) % 2 = 1 THEN GhostArray ELSE t
                     ELSE @[i]]]

p4est_iter_init_loop_face(la, t, nt, p) ==
  LET tree(i) == IF ((i - 1) \div 2) % 2 = right THEN nt ELSE t
  IN
  [la EXCEPT
    !.level = 0,
    !.level_num = Put(@, 0, 0),
    !.index = [i \in 1 .. la.alloc_size |->
                 IF i <= 4
                 THEN IF (i - 1) % 2 = local
                      THEN Put(Put(@[i], 0, 0), 1, Len(p.quadrants[tree(i) + 1]))
                      ELSE Put(Put(@[i], 0, p.tree_first_ghost[tree(i) + 1]),
                               1, p.tree_first_ghost[tree(i) + 2])
                 ELSE @[i]],
    !.quadrants = [i \in 1 .. la.alloc_size |->
                     IF i <= 4 \/ (la.loop_corner /\ i <= 2 * P4EST_CHILDREN)
                     THEN IF (i - 1) % 2 = 1 THEN GhostArray ELSE tree(i)
                     ELSE @[i]]]

p4est_iter_init_loop_outside_face(la, t, p) ==
  [la EXCEPT
    !.level = 0,
    !.level_num = Put(@, 0, 0),
    !.index = [i \in 1 .. la.alloc_size |->
                 IF i = 1 THEN Put(Put(@[i], 0, 0), 1, Len(p.quadrants[t + 1]))
                 ELSE IF i = 2
                 THEN Put(Put(@[i], 0, p.tree_first_ghost[t + 1]),
                          1, p.tree_first_ghost[t + 2])
                 ELSE @[i]],
    !.quadrants = [i \in 1 .. la.alloc_size |->
                     IF i <= 2 \/ (la.loop_corner /\ i <= P4EST_CHILDREN)
                     THEN IF (i - 1) % 2 = 1 THEN GhostArray ELSE t
                     ELSE @[i]]]

\* sides: the sides of the corner info, each with its tree
p4est_iter_init_loop_corner(la, p, sides) ==
  LET limit == Len(sides)
      tree(i) == sides[(i - 1) \div 2 + 1].treeid
  IN
  [la EXCEPT
    !.level = 0,
    !.level_num = Put(@, 0, 0),
    !.index = [i \in 1 .. la.alloc_size |->
                 IF i <= 2 * limit
                 THEN IF (i - 1) % 2 = local
                      THEN Put(Put(@[i], 0, 0), 1, Len(p.quadrants[tree(i) + 1]))
                      ELSE Put(Put(@[i], 0, p.tree_first_ghost[tree(i) + 1]),
                               1, p.tree_first_ghost[tree(i) + 2])
                 ELSE @[i]],
    !.quadrants = [i \in 1 .. la.alloc_size |->
                     IF i <= 2 * limit
                     THEN IF (i - 1) % 2 = 1 THEN GhostArray ELSE tree(i)
                     ELSE @[i]]]

\* start_idx2 is a sequence of new_num child ids
p4est_iter_copy_indices(la, start_idx2, old_num, new_num) ==
  LET idx2(side) == la.level * P4EST_ITER_STRIDE + At(start_idx2, side)
      src(i) == (((i - 1) \div 2) % old_num) * 2 + ((i - 1) % 2)
  IN
  [la EXCEPT
    !.index = [i \in 1 .. la.alloc_size |->
                 IF i <= 2 * new_num
                 THEN LET k == idx2((i - 1) \div 2)
                      IN  Put(Put(@[i], k, Index(la, src(i), k)),
                              k + 1, Index(la, src(i), k + 1))
                 ELSE @[i]]]

(***************************************************************************)
(* Corner assembler (lines 564-885).                                       *)
(***************************************************************************)
CornerSide(t, c) ==
  [treeid |-> t, corner |-> c, quad |-> NULL, quadid |-> -1, is_local |-> FALSE]

\* the level-1 quadrant with child id c
RootChild(c) == p4est_quadrant_sibling(Quad(0, 0, 1), c)

\* the sides p4est_iter_init_corner collects for corner c of tree t
InitCornerSides(conn, t, c) ==
  LET orig == RootChild(c)
      across(i) ==
        p4est_quadrant_face_neighbor_extra(conn, orig, t,
                                           p4est_corner_faces[c + 1][i])
      faceSide(a) ==
        IF a.nt = -1 THEN <<>>
        ELSE <<CornerSide(a.nt, p4est_quadrant_child_id(a.r))>>
      cornerSides(diag) ==
        [z \in 1 .. Len(diag) |->
           CornerSide(diag[z].tree, p4est_quadrant_child_id(diag[z].quad))]
  IN  <<CornerSide(t, c)>>
      \o (faceSide(across(1)) \o faceSide(across(2)))
      \o cornerSides(p4est_quadrant_corner_neighbor_extra(conn, orig, t, c))

\* a variant of CornerRunIter that accepts the smallest pair
CornerRunIterSmallest(sides, t, c) ==
  \A i \in 2 .. Len(sides) :
    /\ ~(sides[i].treeid < t)
    /\ ~(sides[i].treeid = t /\ sides[i].corner < c)

\* the owner test of lines 666-674
CornerRunIter(sides, t, c) ==
  \A i \in 2 .. Len(sides) :
    /\ ~(sides[i].treeid > t)
    /\ ~(sides[i].treeid = t /\ sides[i].corner > c)

\* the result holds the corner arguments, run_iter and the loop arguments
p4est_iter_init_corner(p, la, t, c) ==
  LET init(sides, run) ==
        [args |-> [num_sides |-> Len(sides),
                   start_idx2 |-> [i \in 1 .. Len(sides) |-> 0],
                   sides |-> sides],
         run_iter |-> run,
         loop_args |-> IF run THEN p4est_iter_init_loop_corner(la, p, sides)
                       ELSE la]
      owner(sides) == init(sides, CornerRunIter(sides, t, c))
  IN  owner(InitCornerSides(p.conn, t, c))

\* a variant of p4est_iter_init_corner_from_volume whose corner numbers are
\* mirrored in x: the corner of a child in the middle of a face of the branch
p4est_iter_init_corner_from_volume_mirrored(treeid) ==
  [num_sides |-> P4EST_CHILDREN,
   start_idx2 |-> [i \in 1 .. P4EST_CHILDREN |-> i - 1],
   sides |-> [i \in 1 .. P4EST_CHILDREN |->
                CornerSide(treeid,
                           BitXorOne(P4EST_CHILDREN - 1 - (i - 1)))]]

\* a variant of p4est_iter_init_corner_from_volume that gives child i corner i
p4est_iter_init_corner_from_volume_same(treeid) ==
  [num_sides |-> P4EST_CHILDREN,
   start_idx2 |-> [i \in 1 .. P4EST_CHILDREN |-> i - 1],
   sides |-> [i \in 1 .. P4EST_CHILDREN |-> CornerSide(treeid, i - 1)]]

p4est_iter_init_corner_from_volume(treeid) ==
  [num_sides |-> P4EST_CHILDREN,
   start_idx2 |-> [i \in 1 .. P4EST_CHILDREN |-> i - 1],
   sides |-> [i \in 1 .. P4EST_CHILDREN |->
                CornerSide(treeid, P4EST_CHILDREN - 1 - (i - 1))]]

\* sc_array_bsearch over the view [first, first + count) of arr
RECURSIVE sc_array_bsearch(_, _, _, _, _)
sc_array_bsearch(arr, first, key, lo, hi) ==
  IF lo >= hi THEN -1
  ELSE LET mid == (lo + hi) \div 2
           cmp == p4est_quadrant_compare_contains(key, arr[first + mid + 1])
       IN  IF cmp = 0 THEN mid
           ELSE IF cmp < 0 THEN sc_array_bsearch(arr, first, key, lo, mid)
           ELSE sc_array_bsearch(arr, first, key, mid + 1, hi)

\* a variant of CornerCandidate that takes the first quadrant for every corner
CornerCandidateFirst(arr, first, count, level, this_corner) ==
  IF count = 0 THEN -1
  ELSE LET test == arr[first + 1]
           far == P4EST_QUADRANT_LEN(level) - P4EST_QUADRANT_LEN(QMAXLEVEL)
           temp == Quad(MaskTo(test.x, level)
                          + (IF this_corner % 2 = 1 THEN far ELSE 0),
                        MaskTo(test.y, level)
                          + (IF (this_corner % 4) \div 2 = 1 THEN far ELSE 0),
                        QMAXLEVEL)
       IN  IF ~p4est_quadrant_is_equal(test, temp)
              /\ ~p4est_quadrant_is_ancestor(test, temp)
           THEN -1 ELSE 0

\* lines 790-861 for one sidetype: the position in the search area of the
\* quadrant that touches the corner, -1 when there is none
CornerCandidate(arr, first, count, level, this_corner) ==
  LET pos == IF count = 1 THEN 0
             ELSE IF this_corner = P4EST_CHILDREN - 1 THEN count - 1
             ELSE 0
      test == arr[first + pos + 1]
      far == P4EST_QUADRANT_LEN(level) - P4EST_QUADRANT_LEN(QMAXLEVEL)
      temp == Quad(MaskTo(test.x, level)
                     + (IF this_corner % 2 = 1 THEN far ELSE 0),
                   MaskTo(test.y, level)
                     + (IF (this_corner % 4) \div 2 = 1 THEN far ELSE 0),
                   QMAXLEVEL)
  IN  IF count = 0 THEN -1
      ELSE IF count = 1 \/ this_corner = 0 \/ this_corner = P4EST_CHILDREN - 1
      THEN IF ~p4est_quadrant_is_equal(test, temp)
              /\ ~p4est_quadrant_is_ancestor(test, temp)
           THEN -1 ELSE pos
      ELSE sc_array_bsearch(arr, first, temp, 0, count)

\* a variant of HasLocal that is content with any side
HasLocalAny(sides) == \E i \in 1 .. Len(sides) : TRUE

\* has_local of lines 774-881 is computed by HasLocal
HasLocal(sides) == \E i \in 1 .. Len(sides) : sides[i].is_local

\* the result holds the loop arguments after the call, whether iter_corner
\* was invoked, and the sides it was invoked with
p4est_corner_iterate(args, la0, p) ==
  LET level == la0.level
      level_idx2 == level * P4EST_ITER_STRIDE
      quad_idx2(side) == level_idx2 + At(args.start_idx2, side)
      la == LoadBounds(la0, 0 .. args.num_sides - 1,
                       [side \in 0 .. args.num_sides - 1 |-> quad_idx2(side)])
      noLocal == \A side \in 0 .. args.num_sides - 1 :
                   At(la.count, side * 2 + local) = 0
      found(side, type) ==
        LET st == side * 2 + type
        IN  CornerCandidate(ArrayOf(p, At(la.quadrants, st)),
                            At(la.first_index, st), At(la.count, st),
                            level, At(args.sides, side).corner)
      fill(side) ==
        LET cside == At(args.sides, side)
            l == found(side, local)
            g == found(side, ghost)
            type == IF l # -1 THEN local ELSE ghost
            idx == IF l # -1 THEN l ELSE g
            st == side * 2 + type
            quadid == idx + At(la.first_index, st)
        IN  IF idx = -1 THEN CornerSide(cside.treeid, cside.corner)
            ELSE [treeid |-> cside.treeid, corner |-> cside.corner,
                  quad |-> ArrayOf(p, At(la.quadrants, st))[quadid + 1],
                  quadid |-> quadid, is_local |-> (type = local)]
      sides == [i \in 1 .. args.num_sides |-> fill(i - 1)]
  IN  IF noLocal
      THEN [loop_args |-> la, called |-> FALSE, sides |-> args.sides]
      ELSE [loop_args |-> la, called |-> HasLocal(sides), sides |-> sides]

(***************************************************************************)
(* Face assembler: arguments (lines 1385-1621, 1980-2040).                 *)
(***************************************************************************)
FaceSide(t, f) ==
  [treeid |-> t, face |-> f, is_hanging |-> Uninit,
   quad |-> Uninit, quadid |-> Uninit, is_local |-> Uninit]

\* a variant of FullSide that reports every quadrant as local
FullSideLocal(fside, quad, quadid, is_local) ==
  [fside EXCEPT !.is_hanging = FALSE, !.quad = quad, !.quadid = quadid,
                !.is_local = TRUE]

\* is.full of a side
FullSide(fside, quad, quadid, is_local) ==
  [fside EXCEPT !.is_hanging = FALSE, !.quad = quad, !.quadid = quadid,
                !.is_local = is_local]

\* sides: the face sides (treeid, face); limit sides are used
p4est_iter_init_corner_from_face(sides, num_to_child, outside_face) ==
  LET ntc_str == P4EST_CHILDREN \div 2
      limit == IF outside_face THEN 1 ELSE 2
      j(count) == count \div limit
      k(count) == count % limit
  IN  [num_sides |-> limit * ntc_str,
       start_idx2 |-> [n \in 1 .. limit * ntc_str |->
                         At(num_to_child, k(n - 1) * ntc_str + j(n - 1))],
       sides |-> [n \in 1 .. limit * ntc_str |->
                    CornerSide(At(sides, k(n - 1)).treeid,
                               At(num_to_child, k(n - 1) * ntc_str
                                                + (ntc_str - 1 - j(n - 1))))]]

p4est_iter_init_face_from_volume(treeid, dir, pos, loop_corner) ==
  LET ntc_str == P4EST_CHILDREN \div 2
      corners(zf) == p4est_face_corners[At(p4est_zface_to_rface, zf) + 1]
      num_to_child == [n \in 1 .. 2 * ntc_str |->
                         At(corners(dir * 2 + (1 - ((n - 1) \div ntc_str))),
                            (n - 1) % ntc_str)]
      sides == <<FaceSide(treeid, 2 * dir + 1), FaceSide(treeid, 2 * dir)>>
  IN  [outside_face |-> FALSE,
       start_idx2 |-> <<At(corners(dir * 2), pos), At(corners(dir * 2 + 1), pos)>>,
       num_to_child |-> num_to_child,
       sides |-> sides,
       orientation |-> 0,
       corner_args |-> IF loop_corner
                       THEN p4est_iter_init_corner_from_face(sides, num_to_child,
                                                             FALSE)
                       ELSE NULL]

\* a variant of FaceRunIter that compares the trees only
FaceRunIterTree(t, f, nt, nf) == ~(nt # -1 /\ nt > t)

\* the owner test of lines 1585-1592
FaceRunIter(t, f, nt, nf) ==
  ~(nt # -1 /\ (nt > t \/ (nt = t /\ nf > f)))

\* a variant of InitFaceSides that always pushes a second side
InitFaceSidesBoth(t, f, nt, nf) == <<FaceSide(t, f), FaceSide(nt, nf)>>

\* info->sides after lines 1549-1570: the side of tree t, and the side of
\* the neighbouring tree only when there is one
InitFaceSides(t, f, nt, nf) ==
  <<FaceSide(t, f)>> \o (IF nt # -1 THEN <<FaceSide(nt, nf)>> ELSE <<>>)

\* the result holds the face arguments, run_iter and the loop arguments
p4est_iter_init_face(p, la, t, f) ==
  LET ntc_str == P4EST_CHILDREN \div 2
      rf == At(p4est_zface_to_rface, f)
      c(i) == At(p4est_face_corners[rf + 1], i)
      init(nt, nf, orientation, num_to_child, sides, run) ==
        [args |-> [outside_face |-> (nt = -1),
                   start_idx2 |-> <<0>> \o (IF nt # -1 THEN <<0>>
                                            ELSE <<Uninit>>),
                   num_to_child |-> num_to_child,
                   sides |-> sides,
                   orientation |-> orientation,
                   corner_args |-> IF la.loop_corner
                                   THEN p4est_iter_init_corner_from_face(
                                          sides, num_to_child, nt = -1)
                                   ELSE NULL],
         run_iter |-> run,
         loop_args |-> IF ~run THEN la
                       ELSE IF nt # -1
                       THEN p4est_iter_init_loop_face(la, t, nt, p)
                       ELSE p4est_iter_init_loop_outside_face(la, t, p)]
      \* nb[i]: the neighbour of the i-th touching child of the root across rf
      glue(nb, nrf) ==
        LET nt == nb[ntc_str].nt
            nf == IF nt # -1
                  THEN At(p4est_rface_to_zface, nrf % (2 * P4EST_DIM))
                  ELSE -1
        IN  init(nt, nf, IF nt # -1 THEN nrf \div (2 * P4EST_DIM) ELSE 0,
                 [n \in 1 .. 2 * ntc_str |->
                    IF n <= ntc_str THEN c(n - 1)
                    ELSE IF nb[n - ntc_str].nt # -1
                    THEN p4est_quadrant_child_id(nb[n - ntc_str].r)
                    ELSE Uninit],
                 InitFaceSides(t, f, nt, nf), FaceRunIter(t, f, nt, nf))
  IN  glue([i \in 1 .. ntc_str |->
              p4est_quadrant_face_neighbor_extra(p.conn, RootChild(c(i - 1)),
                                                 t, rf)],
           tree_to_face(p.conn, t, rf))

(***************************************************************************)
(* Face assembler: one pass through the body of the search loop             *)
(* (lines 1716-1882) and one evaluation of change_search_area               *)
(* (lines 1884-1961).                                                       *)
(***************************************************************************)
\* write five consecutive entries of one index array
SetTier(arr, pos, tier) ==
  [j \in 1 .. Len(arr) |->
     IF j - 1 >= pos /\ j - 1 < pos + P4EST_ITER_STRIDE
     THEN tier[j - pos] ELSE arr[j]]

IncLevelNum(la) == [la EXCEPT !.level_num = Put(@, la.level, At(@, la.level) + 1)]

\* the limit of the loops over the sides (line 1675)
FaceLimit(outside_face) == IF outside_face THEN left ELSE right

\* a variant of HangingHasLocal that is content with ghosts
HangingHasLocalAny(has_local, slot_local) == TRUE

\* a variant of HangingHasLocal that looks at the coarse side only
HangingHasLocalCoarse(has_local, slot_local) == has_local

\* the test that decides whether iter_face runs on a hanging face (line 1870)
HangingHasLocal(has_local, slot_local) == has_local \/ slot_local

\* the result holds the sides of the info, the loop arguments, level_idx2,
\* and the sides the callback was invoked with (NULL when it was not)
p4est_face_iterate_loop(args, level_idx2, la, p, iter_face) ==
  LET limit == FaceLimit(args.outside_face)
      Level == la.level
      ntc_str == P4EST_CHILDREN \div 2
      cnt(st) == At(la.count, st)
      fi(st) == At(la.first_index, st)
      test(st) == IF cnt(st) > 0 THEN <<At(la.quadrants, st), fi(st)>> ELSE NULL
      test_level(st) == IF cnt(st) > 0 THEN Deref(p, test(st)).level ELSE -1
      full(sides, side, st) ==
        Put(sides, side, FullSide(At(sides, side), Deref(p, test(st)), fi(st),
                                  st % 2 = local))
      RECURSIVE scan(_, _)
      scan(k, s) ==
        IF k > 2 * limit + 1 THEN s
        ELSE IF test_level(k) # Level THEN scan(k + 1, s)
        ELSE IF ~iter_face THEN [s EXCEPT !.exit = TRUE]
        ELSE
          LET side == k \div 2
              type == k % 2
              n_side == 1 - side
              s1 == [s EXCEPT !.sides = full(@, side, k),
                              !.refine = Put(@, side, FALSE),
                              !.has_local = (type = local)]
              opp == {n_type \in type .. ghost :
                        /\ (n_type > type \/ n_side > side)
                        /\ test_level(n_side * 2 + n_type) = Level}
              n_type == CHOOSE n \in opp : \A m \in opp : n <= m
          IN  IF args.outside_face
              THEN [s1 EXCEPT !.exit = TRUE, !.fire = TRUE]
              ELSE IF opp # {}
              THEN [s1 EXCEPT !.sides = full(@, n_side, n_side * 2 + n_type),
                              !.exit = TRUE, !.fire = TRUE]
              ELSE IF cnt(n_side * 2 + local) = 0 /\ cnt(n_side * 2 + ghost) = 0
              THEN [s1 EXCEPT !.sides = Put(@, n_side,
                                            FullSide(At(@, n_side), NULL, -1, FALSE)),
                              !.exit = TRUE, !.fire = TRUE]
              ELSE scan(k + 1, s1)
      \* lines 1808-1820: the tier of every side that is refined further
      RECURSIVE tiers(_, _, _)
      tiers(st, l, refine) ==
        IF st > 2 * limit + 1 THEN l
        ELSE IF ~At(refine, st \div 2) THEN tiers(st + 1, l, refine)
        ELSE LET store(r) ==
                   [l EXCEPT !.tier_rings = r.tier_rings,
                             !.index = Put(@, st,
                                           SetTier(At(@, st),
                                                   level_idx2 + P4EST_ITER_STRIDE,
                                                   r.next_tier))]
             IN  tiers(st + 1,
                       store(p4est_iter_tier_insert(
                               ArrayOf(p, At(la.quadrants, st)), fi(st), cnt(st),
                               Level, fi(st), l.tier_rings, test(st))),
                       refine)
      \* lines 1822-1878: the side `side` is a leaf, the other one is finer
      hanging(s, la1, side) ==
        LET n_side == 1 - side
            ntc(i) == At(args.num_to_child, n_side * ntc_str + i)
            slotOf(i) == IF ntc(i) < ntc(1 - i) THEN 0 ELSE 1
            qidx(i) == level_idx2 + P4EST_ITER_STRIDE + ntc(i)
            hf(i, type) == Index(la1, n_side * 2 + type, qidx(i))
            hc(i, type) == Index(la1, n_side * 2 + type, qidx(i) + 1)
                           - Index(la1, n_side * 2 + type, qidx(i))
            chosen(i) == IF hc(i, ghost) > 0 THEN ghost
                         ELSE IF hc(i, local) > 0 THEN local ELSE -1
            inSlot(j) == CHOOSE i \in 0 .. ntc_str - 1 : slotOf(i) = j
            slot(i, type) ==
              [quad |-> IF type = -1 THEN NULL
                        ELSE ArrayOf(p, At(la1.quadrants, n_side * 2 + type))
                               [hf(i, type) + 1],
               quadid |-> IF type = -1 THEN -1 ELSE hf(i, type),
               is_local |-> type = local]
            slots == [j \in 1 .. ntc_str |->
                        slot(inSlot(j - 1), chosen(inSlot(j - 1)))]
            hside(h) ==
              [At(s.sides, n_side) EXCEPT
                 !.is_hanging = TRUE,
                 !.quad = [j \in 1 .. ntc_str |-> h[j].quad],
                 !.quadid = [j \in 1 .. ntc_str |-> h[j].quadid],
                 !.is_local = [j \in 1 .. ntc_str |-> h[j].is_local]]
            slot_local == \E i \in 0 .. ntc_str - 1 : hc(i, local) > 0
            la2 == [la1 EXCEPT
                      !.first_index = [i \in 1 .. la.alloc_size |->
                                         IF (i - 1) \div 2 = n_side
                                         THEN hf(ntc_str - 1, (i - 1) % 2)
                                         ELSE @[i]],
                      !.count = [i \in 1 .. la.alloc_size |->
                                   IF (i - 1) \div 2 = n_side
                                   THEN hc(ntc_str - 1, (i - 1) % 2) ELSE @[i]]]
            result(hsides) ==
              [sides |-> hsides, loop_args |-> IncLevelNum(la2),
               level_idx2 |-> level_idx2,
               called |-> IF HangingHasLocal(s.has_local, slot_local)
                          THEN hsides ELSE NULL]
        IN  result(Put(s.sides, n_side, hside(slots)))
      \* lines 1794-1881: no callback yet, so at least one side is a branch
      split(s, la1) ==
        LET coarse == {side \in left .. limit : ~At(s.refine, side)}
        IN  IF coarse # {}
            THEN hanging(s, la1, CHOOSE c \in coarse : \A d \in coarse : c <= d)
            ELSE [sides |-> s.sides,
                  loop_args |-> [la1 EXCEPT !.level = Level + 1,
                                            !.level_num = Put(@, Level + 1, 0)],
                  level_idx2 |-> level_idx2 + P4EST_ITER_STRIDE,
                  called |-> NULL]
      finish(s) ==
        IF s.exit
        THEN [sides |-> s.sides, loop_args |-> IncLevelNum(la),
              level_idx2 |-> level_idx2,
              called |-> IF s.fire THEN s.sides ELSE NULL]
        ELSE split(s, tiers(0, la, s.refine))
  IN  finish(scan(0, [sides |-> args.sides, refine |-> <<TRUE, TRUE>>,
                      has_local |-> FALSE, exit |-> FALSE, fire |-> FALSE]))

\* a variant of FaceNoLocal that looks at the left side only
FaceNoLocalLeft(la, outside_face) == At(la.count, left * 2 + local) = 0

\* whether the search area has no local quadrant on any side
\* (lines 1701-1710 and 1950-1961)
FaceNoLocal(la, outside_face) ==
  IF ~outside_face
  THEN At(la.count, left * 2 + local) = 0 /\ At(la.count, right * 2 + local) = 0
  ELSE At(la.count, left * 2 + local) = 0

\* lines 1675-1714: the bounds of the first search area; the result holds
\* the loop arguments and whether the search loop is entered
p4est_face_iterate_enter(args, la0) ==
  LET limit == FaceLimit(args.outside_face)
      level_idx2 == la0.level * P4EST_ITER_STRIDE
      quad_idx2(side) == level_idx2 + At(args.start_idx2, side)
      la == LoadBounds(la0, left .. limit,
                       [side \in left .. limit |-> quad_idx2(side)])
  IN  IF FaceNoLocal(la, args.outside_face)
      THEN [loop_args |-> la, enter |-> FALSE]
      ELSE [loop_args |-> [la EXCEPT !.level_num = Put(@, la0.level, 0)],
            enter |-> TRUE]

\* lines 1950-1961: the bounds of the next search area of the level; the
\* result holds the loop arguments and whether the search loop is entered
p4est_face_iterate_next(args, level_idx2, la) ==
  LET limit == FaceLimit(args.outside_face)
      ntc_str == P4EST_CHILDREN \div 2
      quad_idx2(side) ==
        level_idx2
        + At(args.num_to_child, side * ntc_str + At(la.level_num, la.level))
      la1 == LoadBounds(la, left .. limit,
                        [side \in left .. limit |-> quad_idx2(side)])
  IN  IF FaceNoLocal(la1, args.outside_face)
      THEN [loop_args |-> IncLevelNum(la1), enter |-> FALSE]
      ELSE [loop_args |-> la1, enter |-> TRUE]

(***************************************************************************)
(* The traversal as a state machine.                                       *)
(***************************************************************************)
VARIABLES
  step,        \* the number of steps the traversal has made
  p4est,       \* the forest, its connectivity and the ghost layer (inputs)
  iter,        \* which of iter_volume, iter_face, iter_corner are not NULL
  pc,          \* the position of the traversal
  top,         \* t and i of p4est_iterate / p4est_volume_iterate_simple
  vol,         \* the local variables of p4est_volume_iterate
  face,        \* the arguments and local variables of p4est_face_iterate
  loop_args,   \* the iteration context
  calls,       \* the callback invocations so far, in order
  init_calls,  \* the calls of p4est_iter_init_face and p4est_iter_init_corner
               \* of p4est_iterate so far, each with the value it returned
  allocs,      \* the functions that allocated memory so far, in order
  tier_log,    \* the calls of p4est_iter_tier_insert made directly on the
               \* tier rings: the keys computed and the last call
  face_code,     \* the argument face_code of p6est_lnodes_decode
  hanging_face,  \* the array hanging_face[6] of the caller
  hanging_edge,  \* the array hanging_edge[12] of the caller
  decode_ret,    \* the value p6est_lnodes_decode returned, NULL before the call
  base,          \* the static variables of p4est_base.c and the calls of
                 \* p4est_abort in progress
  earlier,       \* the corner callback invocations of an earlier call of
                 \* p4est_iterate by the same caller, NULL when there was none
  lower_bound    \* the arguments and local variables of a call of
                 \* p4est_int64_lower_bound, NULL when there is none

\* the variables of p6est_lnodes_decode
lnodes == <<face_code, hanging_face, hanging_edge, decode_ret>>

vars == <<step, p4est, iter, pc, top, vol, face, loop_args, calls, init_calls,
          allocs, tier_log, lnodes, base, earlier, lower_bound>>

\* one more step of the call
Tick == step < MaxSteps /\ step' = step + 1

\* the signals p4est_set_abort_handler redirects
Signals == {"INT", "SEGV", "USR2"}

\* the handlers a signal can have: the default action, ignoring it, a
\* function of the program, and p4est_signal_handler
SIG_DFL == <<"SIG_DFL">>
SIG_IGN == <<"SIG_IGN">>
ProgramHandler == <<"program_handler">>
p4est_signal_handler == <<"p4est_signal_handler">>

\* p4est_base.c lines 34-41: the statics before p4est_init is called, with no
\* call of p4est_abort in progress; `signal` is the handler of each signal
\* in the process, as signal () keeps it
BaseStatics ==
  [p4est_base_identifier |-> -1,
   p4est_abort_handler |-> NULL,
   p4est_abort_data |-> NULL,
   signals_caught |-> 0,
   system_int_handler |-> NULL,
   system_segv_handler |-> NULL,
   system_usr2_handler |-> NULL,
   signal |-> [sig \in Signals |-> SIG_DFL],
   frames |-> <<>>]

\* the callbacks a caller supplies: all of them, only iter_corner, only
\* iter_volume, or none
CallbackChoices ==
  {[volume |-> TRUE, face |-> TRUE, corner |-> TRUE],
   [volume |-> FALSE, face |-> FALSE, corner |-> TRUE],
   [volume |-> TRUE, face |-> FALSE, corner |-> FALSE],
   [volume |-> FALSE, face |-> FALSE, corner |-> FALSE]}

(***************************************************************************)
(* Memory: the functions that allocate (P4EST_ALLOC, sc_array_new,          *)
(* sc_array_resize or sc_array_push on an empty array), one entry for each  *)
(* call of such a function.                                                 *)
(***************************************************************************)
\* p4est_iterate up to the loop over the trees: the iteration context
\* (line 2410) and tree_first_ghost (line 2419)
IterateAllocs == <<"p4est_iter_loop_args_new", "p4est_iterate">>

\* p4est_iter_init_corner_from_face is called only with a corner callback
CornerFromFaceAllocs(loop_corner) ==
  IF loop_corner THEN <<"p4est_iter_init_corner_from_face">> ELSE <<>>

InitFaceFromVolumeAllocs(loop_corner) ==
  <<"p4est_iter_init_face_from_volume">> \o CornerFromFaceAllocs(loop_corner)

\* p4est_iter_init_volume: the arguments of the faces between the children
\* of a branch, and of their common corner
InitVolumeAllocs(loop_corner) ==
  Concat([i \in 1 .. P4EST_DIM * (P4EST_CHILDREN \div 2) |->
            InitFaceFromVolumeAllocs(loop_corner)],
         P4EST_DIM * (P4EST_CHILDREN \div 2))
  \o (IF loop_corner THEN <<"p4est_iter_init_corner_from_volume">> ELSE <<>>)

InitFaceAllocs(loop_corner) ==
  <<"p4est_iter_init_face">> \o CornerFromFaceAllocs(loop_corner)

InitCornerAllocs == <<"p4est_iter_init_corner">>

\* a variant of SearchAllocs in which a search initialises face arguments
SearchAllocsFace == <<"p4est_iter_init_face_from_volume">>

\* p4est_volume_iterate, p4est_face_iterate and p4est_corner_iterate work on
\* the arguments they are given and on the iteration context
SearchAllocs == <<>>

Init ==
  /\ step = 0
  /\ p4est \in Forests
  /\ iter \in CallbackChoices
  /\ pc = "p4est_iterate"
  /\ top = [t |-> 0, i |-> 0]
  /\ vol = NULL
  /\ face = NULL
  /\ loop_args = NULL
  /\ calls = <<>>
  /\ init_calls = <<>>
  /\ allocs = <<>>
  /\ tier_log = NULL
  /\ face_code = 0
  /\ hanging_face = <<>>
  /\ hanging_edge = <<>>
  /\ decode_ret = NULL
  /\ base = BaseStatics
  /\ earlier = NULL
  /\ lower_bound = NULL

InitCall(kind, t, i, run_iter) ==
  [kind |-> kind, treeid |-> t, index |-> i, run_iter |-> run_iter]

\* a variant of VolumeCall that numbers the quadrants of a tree from one
VolumeCallFromOne(t, quad, quadid) ==
  [type |-> "volume", treeid |-> t, quad |-> quad, quadid |-> quadid + 1]

VolumeCall(t, quad, quadid) ==
  [type |-> "volume", treeid |-> t, quad |-> quad, quadid |-> quadid]
FaceCall(sides, orientation) ==
  [type |-> "face", sides |-> sides, orientation |-> orientation]
CornerCall(sides) == [type |-> "corner", sides |-> sides]

\* a variant of Iterate that enters p4est_volume_iterate_simple without
\* looking at iter_volume
IterateSimpleAlways ==
  /\ pc = "p4est_iterate"
  /\ Tick
  /\ IF p4est.first_local_tree < 0
     THEN pc' = "return" /\ UNCHANGED <<top, loop_args, allocs>>
     ELSE IF ~iter.face /\ ~iter.corner
     THEN /\ pc' = "volume_iterate_simple"
          /\ top' = [t |-> p4est.first_local_tree, i |-> 0]
          /\ UNCHANGED <<loop_args, allocs>>
     ELSE /\ pc' = "tree"
          /\ top' = [t |-> 0, i |-> 0]
          /\ allocs' = allocs \o IterateAllocs
          /\ loop_args' = p4est_iter_loop_args_new(p4est.conn, iter.corner,
                                                   p4est.mpisize)
  /\ UNCHANGED <<p4est, iter, vol, face, calls, init_calls, tier_log, lnodes, base, earlier, lower_bound>>

\* lines 2381-2421
Iterate ==
  /\ pc = "p4est_iterate"
  /\ Tick
  /\ IF p4est.first_local_tree < 0
     THEN pc' = "return" /\ UNCHANGED <<top, loop_args, allocs>>
     ELSE IF ~iter.face /\ ~iter.corner
     THEN /\ pc' = IF iter.volume THEN "volume_iterate_simple" ELSE "return"
          /\ top' = [t |-> p4est.first_local_tree, i |-> 0]
          /\ UNCHANGED <<loop_args, allocs>>
     ELSE /\ pc' = "tree"
          /\ top' = [t |-> 0, i |-> 0]
          /\ allocs' = allocs \o IterateAllocs
          /\ loop_args' = p4est_iter_loop_args_new(p4est.conn, iter.corner,
                                                   p4est.mpisize)
  /\ UNCHANGED <<p4est, iter, vol, face, calls, init_calls, tier_log, lnodes, base, earlier, lower_bound>>

\* lines 2180-2190, one pass of the loops
VolumeIterateSimple ==
  /\ pc = "volume_iterate_simple"
  /\ Tick
  /\ IF top.t > p4est.last_local_tree
     THEN pc' = "return" /\ UNCHANGED <<top, calls>>
     ELSE LET quadrants == p4est.quadrants[top.t + 1]
          IN  IF top.i < Len(quadrants)
              THEN /\ calls' = Append(calls, VolumeCall(top.t, At(quadrants, top.i),
                                                       top.i))
                   /\ top' = [top EXCEPT !.i = @ + 1]
                   /\ pc' = pc
              ELSE /\ top' = [t |-> top.t + 1, i |-> 0]
                   /\ UNCHANGED <<pc, calls>>
  /\ UNCHANGED <<p4est, iter, vol, face, loop_args, init_calls, allocs, tier_log,
                 lnodes, base, earlier, lower_bound>>

\* lines 2425-2433 and 2222-2233: the next tree and the entry of
\* p4est_volume_iterate; lines 2480-2482 after the last tree
Tree ==
  /\ pc = "tree"
  /\ Tick
  /\ IF top.t >= NumTrees(p4est.conn)
     THEN /\ pc' = "return"
          /\ loop_args' = NULL
          /\ UNCHANGED <<top, vol, allocs>>
     ELSE LET la0 == p4est_iter_init_loop_volume(loop_args, top.t, p4est)
              start_idx2 == 0
              quad_idx2(side) == la0.level * P4EST_ITER_STRIDE + start_idx2
              la == LoadBounds(la0, {0},
                               [side \in {0} |-> quad_idx2(side)])
          IN  /\ allocs' = allocs \o InitVolumeAllocs(loop_args.loop_corner)
              /\ IF At(la.count, local) = 0
                 THEN /\ pc' = "top_face"
                      /\ top' = [top EXCEPT !.i = 0]
                      /\ loop_args' = la
                      /\ UNCHANGED vol
                 ELSE /\ pc' = "volume_loop"
                      /\ loop_args' = [la EXCEPT !.level_num = Put(@, la.level, 0)]
                      /\ vol' = [start_level |-> la.level,
                                 level_idx2 |-> la.level * P4EST_ITER_STRIDE,
                                 dir |-> 0, side |-> 0]
                      /\ UNCHANGED top
  /\ UNCHANGED <<p4est, iter, face, calls, init_calls, tier_log, lnodes, base, earlier, lower_bound>>

\* lines 2236-2267
VolumeLoop ==
  /\ pc = "volume_loop"
  /\ Tick
  /\ LET la == loop_args
         Level == la.level
         cnt(type) == At(la.count, type)
         fi(type) == At(la.first_index, type)
         test(type) == IF cnt(type) > 0 THEN <<At(la.quadrants, type), fi(type)>>
                       ELSE NULL
         test_level(type) == IF cnt(type) > 0 THEN Deref(p4est, test(type)).level
                             ELSE -1
         insert(l, type) ==
           LET r == p4est_iter_tier_insert(ArrayOf(p4est, At(la.quadrants, type)),
                                           fi(type), cnt(type), Level, fi(type),
                                           l.tier_rings, test(type))
           IN  [l EXCEPT !.tier_rings = r.tier_rings,
                         !.index = Put(@, type,
                                       SetTier(At(@, type),
                                               vol.level_idx2 + P4EST_ITER_STRIDE,
                                               r.next_tier))]
     IN  IF test_level(local) = Level
         THEN /\ calls' = IF iter.volume
                          THEN Append(calls, VolumeCall(top.t, Deref(p4est, test(local)),
                                                        fi(local)))
                          ELSE calls
              /\ loop_args' = IncLevelNum(la)
              /\ UNCHANGED vol
         ELSE IF test_level(ghost) = Level
         THEN /\ loop_args' = IncLevelNum(la)
              /\ UNCHANGED <<vol, calls>>
         ELSE /\ loop_args' = [insert(insert(la, local), ghost) EXCEPT
                                 !.level = Level + 1,
                                 !.level_num = Put(@, Level + 1, 0)]
              /\ vol' = [vol EXCEPT !.level_idx2 = @ + P4EST_ITER_STRIDE]
              /\ UNCHANGED calls
  /\ pc' = "volume_change"
  /\ allocs' = allocs \o SearchAllocs
  /\ UNCHANGED <<p4est, iter, top, face, init_calls, tier_log, lnodes, base, earlier, lower_bound>>

\* lines 2269-2275 and 2319-2332: one evaluation of change_search_area
VolumeChange ==
  /\ pc = "volume_change"
  /\ Tick
  /\ LET la == loop_args
         Level == la.level
     IN  IF At(la.level_num, vol.start_level) > 0
         THEN /\ pc' = "top_face"
              /\ top' = [top EXCEPT !.i = 0]
              /\ vol' = NULL
              /\ UNCHANGED loop_args
         ELSE IF At(la.level_num, Level) = P4EST_CHILDREN
         THEN /\ pc' = "volume_faces"
              /\ vol' = [vol EXCEPT !.dir = 0, !.side = 0]
              /\ UNCHANGED <<top, loop_args>>
         ELSE LET quad_idx2(side) == vol.level_idx2 + At(la.level_num, Level)
                  la1 == LoadBounds(la, {0},
                                    [side \in {0} |-> quad_idx2(side)])
              IN  /\ IF At(la1.count, local) = 0
                     THEN loop_args' = IncLevelNum(la1) /\ pc' = pc
                     ELSE loop_args' = la1 /\ pc' = "volume_loop"
                  /\ UNCHANGED <<top, vol>>
  /\ allocs' = allocs \o SearchAllocs
  /\ UNCHANGED <<p4est, iter, face, calls, init_calls, tier_log, lnodes, base, earlier, lower_bound>>

\* a variant of AfterVolumeFace that visits one face in each direction
AfterVolumeFaceFirst(v) ==
  IF v.dir + 1 < P4EST_DIM
  THEN [pc |-> "volume_faces", vol |-> [v EXCEPT !.dir = @ + 1, !.side = 0]]
  ELSE [pc |-> "volume_corner", vol |-> v]

\* the position after the face (dir, side) between the children of a branch
AfterVolumeFace(v) ==
  IF v.side + 1 < P4EST_CHILDREN \div 2
  THEN [pc |-> "volume_faces", vol |-> [v EXCEPT !.side = @ + 1]]
  ELSE IF v.dir + 1 < P4EST_DIM
  THEN [pc |-> "volume_faces", vol |-> [v EXCEPT !.dir = @ + 1, !.side = 0]]
  ELSE [pc |-> "volume_corner", vol |-> v]

\* lines 2277-2289: the call of p4est_face_iterate for one face between the
\* children of the branch, up to the entry of its search loop
VolumeFaces ==
  /\ pc = "volume_faces"
  /\ Tick
  /\ LET args == p4est_iter_init_face_from_volume(top.t, vol.dir, vol.side,
                                                  loop_args.loop_corner)
         la == p4est_iter_copy_indices(loop_args, args.start_idx2, 1, 2)
         e == p4est_face_iterate_enter(args, la)
     IN  /\ loop_args' = e.loop_args
         /\ IF e.enter
            THEN /\ face' = [args |-> args, start_level |-> la.level,
                             level_idx2 |-> la.level * P4EST_ITER_STRIDE,
                             caller |-> "volume"]
                 /\ pc' = "face_loop"
                 /\ UNCHANGED vol
            ELSE /\ pc' = AfterVolumeFace(vol).pc
                 /\ vol' = AfterVolumeFace(vol).vol
                 /\ UNCHANGED face
  /\ allocs' = allocs \o SearchAllocs
  /\ UNCHANGED <<p4est, iter, top, calls, init_calls, tier_log, lnodes, base, earlier, lower_bound>>

\* a variant of PopLevel that counts the branch without going up a level
PopLevelStay(la) ==
  [la EXCEPT !.level_num = Put(@, la.level - 1, At(@, la.level - 1) + 1)]

\* level_num[--(*Level)]++
PopLevel(la) ==
  [la EXCEPT !.level = @ - 1,
             !.level_num = Put(@, la.level - 1, At(@, la.level - 1) + 1)]

\* lines 2306-2316
VolumeCorner ==
  /\ pc = "volume_corner"
  /\ Tick
  /\ LET args == p4est_iter_init_corner_from_volume(top.t)
         la == p4est_iter_copy_indices(loop_args, args.start_idx2, 1,
                                       P4EST_CHILDREN)
         r == p4est_corner_iterate(args, la, p4est)
     IN  IF loop_args.loop_corner
         THEN /\ calls' = IF r.called THEN Append(calls, CornerCall(r.sides))
                          ELSE calls
              /\ loop_args' = PopLevel(r.loop_args)
         ELSE /\ loop_args' = PopLevel(loop_args)
              /\ UNCHANGED calls
  /\ vol' = [vol EXCEPT !.level_idx2 = @ - P4EST_ITER_STRIDE]
  /\ pc' = "volume_change"
  /\ allocs' = allocs \o SearchAllocs
  /\ UNCHANGED <<p4est, iter, top, face, init_calls, tier_log, lnodes, base, earlier, lower_bound>>

\* a variant of FaceLoop that leaves the depth after the callback for a
\* hanging face, without the other branch and the corner between the two
FaceLoopLeavesDepth ==
  /\ pc = "face_loop"
  /\ Tick
  /\ \E r \in {p4est_face_iterate_loop(face.args, face.level_idx2, loop_args,
                                        p4est, iter.face)} :
       LET leaves == /\ r.called # NULL
                     /\ loop_args.level > face.start_level
                     /\ \/ At(r.called, left).is_hanging
                        \/ /\ ~face.args.outside_face
                           /\ At(r.called, right).is_hanging
       IN  /\ loop_args' = IF leaves THEN PopLevel(loop_args) ELSE r.loop_args
           /\ face' = [face EXCEPT
                         !.args.sides = r.sides,
                         !.level_idx2 = IF leaves
                                        THEN r.level_idx2 - P4EST_ITER_STRIDE
                                        ELSE r.level_idx2]
           /\ calls' = IF r.called # NULL
                       THEN Append(calls, FaceCall(r.called, face.args.orientation))
                       ELSE calls
  /\ pc' = "face_change"
  /\ allocs' = allocs \o SearchAllocs
  /\ UNCHANGED <<p4est, iter, top, vol, init_calls, tier_log, lnodes, base, earlier, lower_bound>>

\* lines 1716-1882
FaceLoop ==
  /\ pc = "face_loop"
  /\ Tick
  /\ \E r \in {p4est_face_iterate_loop(face.args, face.level_idx2, loop_args,
                                        p4est, iter.face)} :
         /\ loop_args' = r.loop_args
         /\ face' = [face EXCEPT !.args.sides = r.sides,
                                 !.level_idx2 = r.level_idx2]
         /\ calls' = IF r.called # NULL
                     THEN Append(calls, FaceCall(r.called, face.args.orientation))
                     ELSE calls
  /\ pc' = "face_change"
  /\ allocs' = allocs \o SearchAllocs
  /\ UNCHANGED <<p4est, iter, top, vol, init_calls, tier_log, lnodes, base, earlier, lower_bound>>

\* a variant of AfterTopFace that visits every second face of a tree
AfterTopFaceSecond(la, i) ==
  IF i + 2 < 2 * P4EST_DIM THEN [pc |-> "top_face", i |-> i + 2]
  ELSE IF la.loop_corner THEN [pc |-> "top_corner", i |-> 0]
  ELSE [pc |-> "next_tree", i |-> 0]

\* the position after face i of tree t (lines 2438-2467, 2478)
AfterTopFace(la, i) ==
  IF i + 1 < 2 * P4EST_DIM THEN [pc |-> "top_face", i |-> i + 1]
  ELSE IF la.loop_corner THEN [pc |-> "top_corner", i |-> 0]
  ELSE [pc |-> "next_tree", i |-> 0]

\* a variant of Goto that goes on with the tree after the next one
GotoSecond(pos) ==
  IF pos.pc = "next_tree"
  THEN pc' = "tree" /\ top' = [t |-> top.t + 2, i |-> 0]
  ELSE pc' = pos.pc /\ top' = [top EXCEPT !.i = pos.i]

Goto(pos) ==
  IF pos.pc = "next_tree"
  THEN pc' = "tree" /\ top' = [t |-> top.t + 1, i |-> 0]
  ELSE pc' = pos.pc /\ top' = [top EXCEPT !.i = pos.i]

\* lines 1884-1961: one evaluation of change_search_area
FaceChange ==
  /\ pc = "face_change"
  /\ Tick
  /\ LET la == loop_args
         Level == la.level
         args == face.args
         limit == FaceLimit(args.outside_face)
     IN  IF At(la.level_num, face.start_level) > 0
         THEN /\ face' = NULL
              /\ UNCHANGED <<loop_args, calls>>
              /\ IF face.caller = "volume"
                 THEN /\ pc' = AfterVolumeFace(vol).pc
                      /\ vol' = AfterVolumeFace(vol).vol
                      /\ UNCHANGED top
                 ELSE /\ Goto(AfterTopFace(la, top.i))
                      /\ UNCHANGED vol
         ELSE IF At(la.level_num, Level) = P4EST_CHILDREN \div 2
         THEN LET la1 == p4est_iter_copy_indices(la, args.corner_args.start_idx2,
                                                 limit + 1,
                                                 (P4EST_CHILDREN \div 2) * (limit + 1))
                  r == p4est_corner_iterate(args.corner_args, la1, p4est)
              IN  /\ IF iter.corner
                     THEN /\ calls' = IF r.called
                                      THEN Append(calls, CornerCall(r.sides))
                                      ELSE calls
                          /\ loop_args' = PopLevel(r.loop_args)
                     ELSE /\ loop_args' = PopLevel(la)
                          /\ UNCHANGED calls
                  /\ face' = [face EXCEPT !.level_idx2 = @ - P4EST_ITER_STRIDE]
                  /\ UNCHANGED <<pc, top, vol>>
         ELSE LET n == p4est_face_iterate_next(args, face.level_idx2, la)
              IN  /\ loop_args' = n.loop_args
                  /\ pc' = IF n.enter THEN "face_loop" ELSE pc
                  /\ UNCHANGED <<top, vol, face, calls>>
  /\ allocs' = allocs \o SearchAllocs
  /\ UNCHANGED <<p4est, iter, init_calls, tier_log, lnodes, base, earlier, lower_bound>>

\* lines 2438-2450: one face of the tree, up to the entry of the search loop
TopFace ==
  /\ pc = "top_face"
  /\ Tick
  /\ \E r \in {p4est_iter_init_face(p4est, loop_args, top.t, top.i)} :
     \E e \in {IF r.run_iter
               THEN p4est_face_iterate_enter(r.args, r.loop_args)
               ELSE [loop_args |-> loop_args, enter |-> FALSE]} :
         /\ init_calls' = Append(init_calls,
                                 InitCall("face", top.t, top.i, r.run_iter))
         /\ IF r.run_iter /\ e.enter
            THEN /\ loop_args' = e.loop_args
                 /\ face' = [args |-> r.args, start_level |-> r.loop_args.level,
                             level_idx2 |-> r.loop_args.level * P4EST_ITER_STRIDE,
                             caller |-> "p4est_iterate"]
                 /\ pc' = "face_loop"
                 /\ UNCHANGED top
            ELSE /\ loop_args' = e.loop_args
                 /\ Goto(AfterTopFace(loop_args, top.i))
                 /\ UNCHANGED face
  /\ allocs' = allocs \o InitFaceAllocs(loop_args.loop_corner)
  /\ UNCHANGED <<p4est, iter, vol, calls, tier_log, lnodes, base, earlier, lower_bound>>

\* lines 2467-2476: one corner of the tree
TopCorner ==
  /\ pc = "top_corner"
  /\ Tick
  /\ \E r \in {p4est_iter_init_corner(p4est, loop_args, top.t, top.i)} :
     \E c \in {IF r.run_iter
               THEN p4est_corner_iterate(r.args, r.loop_args, p4est)
               ELSE [loop_args |-> loop_args, called |-> FALSE]} :
         /\ loop_args' = c.loop_args
         /\ calls' = IF c.called
                     THEN Append(calls, CornerCall(c.sides)) ELSE calls
         /\ init_calls' = Append(init_calls,
                                 InitCall("corner", top.t, top.i, r.run_iter))
  /\ Goto(IF top.i + 1 < P4EST_CHILDREN THEN [pc |-> "top_corner", i |-> top.i + 1]
          ELSE [pc |-> "next_tree", i |-> 0])
  /\ allocs' = allocs \o InitCornerAllocs
  /\ UNCHANGED <<p4est, iter, vol, face, tier_log, lnodes, base, earlier, lower_bound>>

Next ==
  \/ Iterate
  \/ VolumeIterateSimple
  \/ Tree
  \/ VolumeLoop
  \/ VolumeChange
  \/ VolumeFaces
  \/ VolumeCorner
  \/ FaceLoop
  \/ FaceChange
  \/ TopFace
  \/ TopCorner

Spec == Init /\ [][Next]_vars

(***************************************************************************)
(* The geometry of the forest, read off the leaves of all processes        *)
(* (p4est.leaves) without the search: what a traversal has to report.      *)
(***************************************************************************)
\* the position of leaf q of tree t among the local quadrants of the tree
LocalId(t, q) ==
  LET S == {i \in 1 .. Len(p4est.quadrants[t + 1]) : p4est.quadrants[t + 1][i] = q}
  IN  IF S = {} THEN -1 ELSE (CHOOSE i \in S : TRUE) - 1

\* the position of leaf q of tree t in the ghost layer
GhostId(t, q) ==
  LET S == {i \in p4est.tree_first_ghost[t + 1] + 1 .. p4est.tree_first_ghost[t + 2] :
              p4est.ghost_layer[i] = q}
  IN  IF S = {} THEN -1 ELSE (CHOOSE i \in S : TRUE) - 1

IsLocal(t, q) == LocalId(t, q) # -1
Present(t, q) == LocalId(t, q) # -1 \/ GhostId(t, q) # -1

\* what a callback is told of leaf q of tree t: the quadrant, its position
\* and whether it is local; null when it is in neither sequence
QuadOf(t, q) == IF Present(t, q) THEN q ELSE NULL
QuadIdOf(t, q) == IF IsLocal(t, q) THEN LocalId(t, q) ELSE GhostId(t, q)

\* the full side of face f of leaf q of tree t
FullOf(t, f, q) ==
  [treeid |-> t, face |-> f, is_hanging |-> FALSE, quad |-> QuadOf(t, q),
   quadid |-> QuadIdOf(t, q), is_local |-> IsLocal(t, q)]

Leaves(t) == {p4est.leaves[t + 1][i] : i \in 1 .. Len(p4est.leaves[t + 1])}

\* leaf r of tree u, not coarser than leaf q of tree t, lies with its face g
\* on face f of q
OnFace(t, q, f, u, r, g) ==
  LET K == p4est.conn
      n == NeighborAt(K, u, r, FaceDir(K, u, g))
  IN  /\ r.level >= q.level
      /\ FaceDir(K, t, f) = <<-FaceDir(K, u, g)[1], -FaceDir(K, u, g)[2]>>
      /\ n # NULL
      /\ n.tree = t
      /\ (n.quad = q \/ p4est_quadrant_is_ancestor(q, n.quad))

\* the leaves of level lev that lie on face f of leaf q of tree t: <<u, r, g>>
FaceNeighbors(t, q, f, lev) ==
  {n \in {<<u, r, g>> : u \in TreeIds(p4est.conn), r \in Leaves(t) \cup UNION {Leaves(v) : v \in TreeIds(p4est.conn)}, g \in 0 .. 3} :
     /\ n[2] \in Leaves(n[1])
     /\ n[2].level = lev
     /\ OnFace(t, q, f, n[1], n[2], n[3])}

\* face f of leaf q of tree t lies on the boundary of the domain
OnBoundary(t, q, f) ==
  NeighborAt(p4est.conn, t, q, FaceDir(p4est.conn, t, f)) = NULL

FaceCalls == {k \in 1 .. Len(calls) : calls[k].type = "face"}
CornerCalls == {k \in 1 .. Len(calls) : calls[k].type = "corner"}
VolumeCalls == {k \in 1 .. Len(calls) : calls[k].type = "volume"}

\* the face callback invocation c reports the local quadrant id of tree t on
\* its face f, as a full side or as one slot of a hanging side
Reports(c, t, id, f) ==
  /\ c.type = "face"
  /\ \E i \in 1 .. Len(c.sides) :
       LET s == c.sides[i]
       IN  /\ s.treeid = t
           /\ s.face = f
           /\ IF s.is_hanging
              THEN \E j \in 1 .. P4EST_CHILDREN \div 2 :
                     s.quadid[j] = id /\ s.is_local[j]
              ELSE s.quadid = id /\ s.is_local

ReportsOf(t, id, f) == {k \in 1 .. Len(calls) : Reports(calls[k], t, id, f)}

(***************************************************************************)
(* Properties.                                                             *)
(***************************************************************************)
\* C1: when p4est_iterate has returned from a call with a face callback,
\* every face f of every local quadrant was reported by exactly one
\* invocation of the face callback, as a full side or as a slot of a hanging
\* side: none is missed, none is reported twice.
C1_EveryLocalFaceOnce ==
  (pc = "return" /\ iter.face) =>
    \A t \in TreeIds(p4est.conn) :
      \A id \in 0 .. Len(p4est.quadrants[t + 1]) - 1 :
        \A f \in 0 .. 2 * P4EST_DIM - 1 :
          Cardinality(ReportsOf(t, id, f)) = 1

\* a traversal of a partitioned forest of two trees has returned after
\* reporting a local quadrant in a slot of a hanging side and a face on the
\* boundary of the domain
C1_Witness ==
  /\ pc = "return"
  /\ iter.face
  /\ NumTrees(p4est.conn) = 2
  /\ p4est.mpisize = 2
  /\ \E k \in FaceCalls : Len(calls[k].sides) = 1
  /\ \E k \in FaceCalls : \E i \in 1 .. Len(calls[k].sides) :
       /\ calls[k].sides[i].is_hanging
       /\ \E j \in 1 .. 2 : calls[k].sides[i].is_local[j]

\* the volume callback invocations of a volume-only traversal, in order
VolumeOnlyCalls ==
  Concat([t \in 1 .. NumTrees(p4est.conn) |->
            [i \in 1 .. Len(p4est.quadrants[t]) |->
               [type |-> "volume", treeid |-> t - 1,
                quad |-> p4est.quadrants[t][i], quadid |-> i - 1]]],
         NumTrees(p4est.conn))

\* C2: with only a volume callback, the invocations made so far are always
\* the first ones of the sequence "every local quadrant once, by increasing
\* tree and then in stored order, quadid its position in the tree", and they
\* are the whole sequence when p4est_iterate has returned.
C2_VolumeOnlyOrder ==
  (iter.volume /\ ~iter.face /\ ~iter.corner) =>
    /\ Len(calls) <= Len(VolumeOnlyCalls)
    /\ calls = SubSeq(VolumeOnlyCalls, 1, Len(calls))
    /\ pc = "return" => calls = VolumeOnlyCalls

\* a volume-only traversal has returned after visiting local quadrants of
\* two trees on a process that owns only a part of the forest
C2_Witness ==
  /\ pc = "return"
  /\ iter.volume /\ ~iter.face /\ ~iter.corner
  /\ p4est.mpisize = 2
  /\ Len(calls) >= 3
  /\ calls[1].treeid # calls[Len(calls)].treeid
  /\ calls[Len(calls)].quadid > 0

\* equality of two quadrant pointers, either of which may be null
IsNull(x) == DOMAIN x = {}
SameQuad(x, y) == IF IsNull(x) \/ IsNull(y) THEN IsNull(x) /\ IsNull(y) ELSE x = y

\* equality of two face sides
SameSide(a, b) ==
  /\ a.treeid = b.treeid
  /\ a.face = b.face
  /\ a.is_hanging = b.is_hanging
  /\ IF a.is_hanging
     THEN \A j \in 1 .. P4EST_CHILDREN \div 2 :
            /\ SameQuad(a.quad[j], b.quad[j])
            /\ a.quadid[j] = b.quadid[j]
            /\ a.is_local[j] = b.is_local[j]
     ELSE /\ SameQuad(a.quad, b.quad)
          /\ a.quadid = b.quadid
          /\ a.is_local = b.is_local

\* the invocations of the face callback that have side s among their sides
CallsWithSide(s) ==
  {k \in FaceCalls :
     \E i \in 1 .. Len(calls[k].sides) : SameSide(calls[k].sides[i], s)}

\* the sides of invocation k are the two sides a and b, in some order
TwoSides(k, a, b) ==
  /\ Len(calls[k].sides) = 2
  /\ \E i \in 1 .. 2 : /\ SameSide(calls[k].sides[i], a)
                       /\ SameSide(calls[k].sides[3 - i], b)

\* C3 (as amended): after a traversal with a face callback, for every face
\* between a local leaf and a leaf of the same level, exactly one invocation
\* of the face callback reports the local leaf on that face; its two sides
\* are full (is_hanging false), each with its quadrant, position and
\* locality when the quadrant is in the local or the ghost sequence, and
\* with a null quadrant (quadid -1, not local) when it is in neither.
C3_ConformingFace ==
  (pc = "return" /\ iter.face) =>
    \A t \in TreeIds(p4est.conn) : \A q \in Leaves(t) : \A f \in 0 .. 3 :
      IsLocal(t, q) =>
        \A n \in FaceNeighbors(t, q, f, q.level) :
          /\ Cardinality(ReportsOf(t, LocalId(t, q), f)) = 1
          /\ \A k \in ReportsOf(t, LocalId(t, q), f) :
               TwoSides(k, FullOf(t, f, q), FullOf(n[1], n[3], n[2]))

\* a traversal has returned after reporting a face between two trees with
\* a local quadrant on one side and a ghost quadrant of the same level on
\* the other
C3_Witness ==
  /\ pc = "return"
  /\ iter.face
  /\ \E k \in FaceCalls :
       /\ Len(calls[k].sides) = 2
       /\ \E i \in 1 .. 2 :
            LET a == calls[k].sides[i]
                b == calls[k].sides[3 - i]
            IN  /\ ~a.is_hanging /\ ~b.is_hanging
                /\ a.is_local /\ ~b.is_local
                /\ b.quadid >= 0
                /\ a.treeid # b.treeid
                /\ a.quad.level = b.quad.level

\* C3 (as stated): for every face between a local leaf and a leaf of the
\* same level, exactly one invocation reports the face, with both sides full
\* and holding the two adjacent quadrants.
C3_Original ==
  (pc = "return" /\ iter.face) =>
    \A t \in TreeIds(p4est.conn) : \A q \in Leaves(t) : \A f \in 0 .. 3 :
      IsLocal(t, q) =>
        \A n \in FaceNeighbors(t, q, f, q.level) :
          /\ Cardinality(ReportsOf(t, LocalId(t, q), f)) = 1
          /\ \A k \in ReportsOf(t, LocalId(t, q), f) :
               /\ Len(calls[k].sides) = 2
               /\ \E i \in 1 .. 2 :
                    LET a == calls[k].sides[i]
                        b == calls[k].sides[3 - i]
                    IN  /\ SameSide(a, FullOf(t, f, q))
                        /\ b.treeid = n[1] /\ b.face = n[3]
                        /\ ~b.is_hanging
                        /\ SameQuad(b.quad, n[2])

\* the hanging side made of the leaves N = {<<u, r, g>>} of one tree that lie
\* on a face of a coarser leaf: slot 0 holds the child with the smaller
\* child id
HangingOf(N) ==
  LET lo == CHOOSE n \in N :
              \A m \in N : p4est_quadrant_child_id(n[2])
                             <= p4est_quadrant_child_id(m[2])
      hi == CHOOSE n \in N : n # lo
  IN  [treeid |-> lo[1], face |-> lo[3], is_hanging |-> TRUE,
       quad |-> <<QuadOf(lo[1], lo[2]), QuadOf(hi[1], hi[2])>>,
       quadid |-> <<QuadIdOf(lo[1], lo[2]), QuadIdOf(hi[1], hi[2])>>,
       is_local |-> <<IsLocal(lo[1], lo[2]), IsLocal(hi[1], hi[2])>>]

\* exactly one invocation has the full side of leaf q of tree t on face f,
\* and its other side is the hanging side made of the finer leaves N
HangingFaceOnce(t, q, f, N) ==
  /\ Cardinality(N) = P4EST_CHILDREN \div 2
  /\ Cardinality(CallsWithSide(FullOf(t, f, q))) = 1
  /\ \A k \in CallsWithSide(FullOf(t, f, q)) :
       TwoSides(k, FullOf(t, f, q), HangingOf(N))

\* C4 (as amended): after a traversal with a face callback, for every face
\* between a level-L leaf that is in the local or the ghost sequence and
\* level-(L+1) leaves of which at least one is, with at least one local
\* among these quadrants, exactly one invocation of the face callback
\* reports the face: the coarse side full, the fine side hanging with 2
\* slots, each slot holding the child at its position, and a slot null
\* (quad null, quadid -1, not local) exactly when the child is in neither
\* sequence.
C4_HangingFace ==
  (pc = "return" /\ iter.face) =>
    \A t \in TreeIds(p4est.conn) : \A q \in Leaves(t) : \A f \in 0 .. 3 :
      LET N == FaceNeighbors(t, q, f, q.level + 1)
      IN  ( /\ N # {}
            /\ Present(t, q)
            /\ \E n \in N : Present(n[1], n[2])
            /\ (IsLocal(t, q) \/ \E n \in N : IsLocal(n[1], n[2])) )
          => HangingFaceOnce(t, q, f, N)

\* a traversal has returned after reporting a hanging side with a local
\* quadrant in one slot and a null in the other
C4_Witness ==
  /\ pc = "return"
  /\ iter.face
  /\ \E k \in FaceCalls : \E i \in 1 .. Len(calls[k].sides) :
       LET s == calls[k].sides[i]
       IN  /\ s.is_hanging
           /\ \E j \in 1 .. 2 :
                /\ s.is_local[j] /\ s.quadid[j] >= 0
                /\ s.quadid[3 - j] = -1 /\ ~s.is_local[3 - j]

\* C4 (as stated): for every face between a level-L leaf and level-(L+1)
\* leaves that the process knows of (one of the quadrants is in the local
\* or the ghost sequence), exactly one invocation reports the face, coarse
\* side full, fine side hanging, a slot null exactly when the child is in
\* neither sequence.
C4_Original ==
  (pc = "return" /\ iter.face) =>
    \A t \in TreeIds(p4est.conn) : \A q \in Leaves(t) : \A f \in 0 .. 3 :
      LET N == FaceNeighbors(t, q, f, q.level + 1)
      IN  ( /\ N # {}
            /\ (Present(t, q) \/ \E n \in N : Present(n[1], n[2])) )
          => HangingFaceOnce(t, q, f, N)

\* the loop arguments with the entries of the right side of a face (the
\* sidetypes right * 2 + local and right * 2 + ghost) overwritten
BlankRight(la) ==
  [la EXCEPT
     !.quadrants = Put(Put(@, right * 2 + local, UninitArray),
                       right * 2 + ghost, UninitArray),
     !.index = Put(Put(@, right * 2 + local,
                       [j \in 1 .. Len(la.index[1]) |-> 0]),
                   right * 2 + ghost, [j \in 1 .. Len(la.index[1]) |-> 0]),
     !.first_index = Put(Put(@, right * 2 + local, 0), right * 2 + ghost, 0),
     !.count = Put(Put(@, right * 2 + local, 0), right * 2 + ghost, 0)]

\* the loop arguments without the entries of the right side of a face
LeftOf(la) ==
  [level |-> la.level, level_num |-> la.level_num,
   tier_rings |-> la.tier_rings,
   quadrants |-> SubSeq(la.quadrants, 1, 2),
   index |-> SubSeq(la.index, 1, 2),
   first_index |-> SubSeq(la.first_index, 1, 2),
   count |-> SubSeq(la.count, 1, 2)]

\* the forest without its connectivity
NoConn(p) == [p EXCEPT !.conn = NULL]

\* side s of an invocation is the full side of a quadrant whose face lies on
\* the boundary of the domain
BoundarySide(s) ==
  /\ ~s.is_hanging
  /\ s.quadid >= 0
  /\ OnBoundary(s.treeid, s.quad, s.face)

\* the invocations of the face callback for faces on the boundary
BoundaryCalls == {k \in FaceCalls : BoundarySide(calls[k].sides[1])}

\* the steps of p4est_face_iterate on a face of the boundary lead to the same
\* result when the entries of the right side and the connectivity are taken
\* away from them
RightNeverRead ==
  /\ pc = "top_face" =>
       LET r == p4est_iter_init_face(p4est, loop_args, top.t, top.i)
           e == p4est_face_iterate_enter(r.args, BlankRight(r.loop_args))
       IN  (r.args.outside_face /\ r.run_iter) =>
             /\ (pc' = "face_loop") = e.enter
             /\ LeftOf(loop_args') = LeftOf(e.loop_args)
  /\ (pc = "face_loop" /\ face.args.outside_face) =>
       LET r == p4est_face_iterate_loop(face.args, face.level_idx2,
                                        BlankRight(loop_args), NoConn(p4est),
                                        iter.face)
       IN  /\ LeftOf(loop_args') = LeftOf(r.loop_args)
           /\ face'.level_idx2 = r.level_idx2
           /\ calls' = IF r.called # NULL
                       THEN Append(calls, FaceCall(r.called, face.args.orientation))
                       ELSE calls
  /\ ( /\ pc = "face_change"
       /\ face.args.outside_face
       /\ At(loop_args.level_num, face.start_level) = 0
       /\ At(loop_args.level_num, loop_args.level) # P4EST_CHILDREN \div 2 ) =>
       LET n == p4est_face_iterate_next(face.args, face.level_idx2,
                                        BlankRight(loop_args))
       IN  /\ (pc' = "face_loop") = n.enter
           /\ LeftOf(loop_args') = LeftOf(n.loop_args)

\* C5 (as amended): an invocation of the face callback for a face on the
\* boundary of the domain has one side only, the side of the tree's own
\* quadrant, and no record for the opposite side; every face of a local
\* quadrant on the boundary gets exactly one such invocation; and the steps
\* of p4est_face_iterate on such a face read neither the entries of the
\* right side nor the connectivity.
C5_OutsideFace ==
  [][ /\ Len(calls') > Len(calls) =>
           LET c == calls'[Len(calls')]
           IN  (c.type = "face" /\ BoundarySide(c.sides[1])) => Len(c.sides) = 1
      /\ (pc' = "return" /\ iter.face) =>
           \A t \in TreeIds(p4est.conn) : \A q \in Leaves(t) : \A f \in 0 .. 3 :
             (IsLocal(t, q) /\ OnBoundary(t, q, f)) =>
               /\ Cardinality(CallsWithSide(FullOf(t, f, q))') = 1
               /\ CallsWithSide(FullOf(t, f, q))' \subseteq BoundaryCalls'
      /\ RightNeverRead ]_vars

\* a traversal of two trees has returned after reporting a face on the
\* boundary of the second tree, which it reached after the face between the
\* two trees
C5_Witness ==
  /\ pc = "return"
  /\ NumTrees(p4est.conn) = 2
  /\ \E k \in BoundaryCalls :
       /\ Len(calls[k].sides) = 1
       /\ calls[k].sides[1].treeid = 1
  /\ \E k \in FaceCalls :
       /\ Len(calls[k].sides) = 2
       /\ calls[k].sides[1].treeid # calls[k].sides[2].treeid

\* C5 (as stated): an invocation of the face callback for a face on the
\* boundary of the domain reports the opposite side, as a null side.
C5_Original ==
  \A k \in BoundaryCalls :
    /\ Len(calls[k].sides) = 2
    /\ ~calls[k].sides[2].is_hanging
    /\ IsNull(calls[k].sides[2].quad)
    /\ calls[k].sides[2].quadid = -1
    /\ ~calls[k].sides[2].is_local

\* C6: an invocation of the corner callback always has a side whose quadrant
\* is local: a corner at which the quadrants found are all ghosts, or at
\* which none is found, is not reported.
C6_CornerHasLocal ==
  (Len(calls) > 0 /\ calls[Len(calls)].type = "corner") =>
    \E i \in 1 .. Len(calls[Len(calls)].sides) :
      /\ calls[Len(calls)].sides[i].is_local
      /\ calls[Len(calls)].sides[i].quadid >= 0

\* p4est_iterate is about to hand a corner of a tree to
\* p4est_corner_iterate; the search areas hold local quadrants, but the
\* quadrants found at the corner are ghosts only and iter_corner is not run
C6_Witness ==
  /\ pc = "top_corner"
  /\ LET r == p4est_iter_init_corner(p4est, loop_args, top.t, top.i)
         c == p4est_corner_iterate(r.args, r.loop_args, p4est)
     IN  /\ r.run_iter
         /\ ~c.called
         /\ \E i \in 1 .. Len(c.sides) : c.sides[i].quadid >= 0
         /\ \A i \in 1 .. Len(c.sides) : ~c.sides[i].is_local

\* the (tree, face) pairs of one face of the connectivity
FaceEntity(t, f) ==
  LET K == p4est.conn
      n == NeighborAt(K, t, Quad(0, 0, 0), FaceDir(K, t, f))
  IN  {<<t, f>>}
      \cup (IF n = NULL THEN {}
            ELSE {<<n.tree, g>> : g \in {h \in 0 .. 3 :
                    FaceDir(K, n.tree, h)
                      = <<-FaceDir(K, t, f)[1], -FaceDir(K, t, f)[2]>>}})

\* the (tree, corner) pairs of one corner of the connectivity
CornerEntity(t, c) ==
  {tc \in TreeIds(p4est.conn) \X (0 .. P4EST_CHILDREN - 1) :
     CornerPoint(p4est.conn, tc[1], tc[2]) = CornerPoint(p4est.conn, t, c)}

Entity(kind, t, i) == IF kind = "face" THEN FaceEntity(t, i) ELSE CornerEntity(t, i)

\* the init calls made for the pair (t, i)
InitCallsOf(kind, t, i) ==
  {k \in 1 .. Len(init_calls) :
     /\ init_calls[k].kind = kind
     /\ init_calls[k].treeid = t
     /\ init_calls[k].index = i}

\* the pairs of an entity whose init call returned true
Owners(kind, E) ==
  {e \in E : \E k \in InitCallsOf(kind, e[1], e[2]) : init_calls[k].run_iter}

LexLeq(a, b) == a[1] < b[1] \/ (a[1] = b[1] /\ a[2] <= b[2])

OneTreeRefinedOnce ==
  /\ p4est.conn = Connectivities[1]
  /\ p4est.mpisize = 1
  /\ p4est.ghost_layer = <<>>
  /\ p4est.quadrants = <<SortQuads(Children(Quad(0, 0, 0)))>>
  /\ iter = [volume |-> TRUE, face |-> TRUE, corner |-> TRUE]

\* the faces between the four quadrants: <<quadid, face, quadid, face>>
SiblingFaces == {<<0, 1, 1, 0>>, <<2, 1, 3, 0>>, <<0, 3, 2, 2>>, <<1, 3, 3, 2>>}

\* the faces of the four quadrants on the boundary of the tree: <<quadid, face>>
TreeBoundaryFaces ==
  {<<0, 0>>, <<0, 2>>, <<1, 1>>, <<1, 2>>, <<2, 0>>, <<2, 3>>, <<3, 1>>, <<3, 3>>}

\* side s is the full side of the local level-1 quadrant id on its face f
Level1Side(s, id, f) ==
  /\ s.treeid = 0
  /\ s.face = f
  /\ ~s.is_hanging
  /\ s.quadid = id
  /\ s.is_local
  /\ s.quad = p4est.quadrants[1][id + 1]
  /\ s.quad.level = 1

TwoSidedCalls == {k \in FaceCalls : Len(calls[k].sides) = 2}
OneSidedCalls == {k \in FaceCalls : Len(calls[k].sides) = 1}

\* C9: after the traversal of one tree refined once, the volume callback
\* was invoked 4 times, once for each quadrant, and each of the 4 faces
\* between the quadrants was reported by exactly one invocation of the face
\* callback, with both sides full and both quadrants at level 1.
C9_EndToEndInterior ==
  (OneTreeRefinedOnce /\ pc = "return") =>
    /\ Cardinality(VolumeCalls) = 4
    /\ {calls[k].quadid : k \in VolumeCalls} = 0 .. 3
    /\ Cardinality(TwoSidedCalls) = 4
    /\ \A sf \in SiblingFaces :
         Cardinality({k \in TwoSidedCalls :
                        \E i \in 1 .. 2 :
                          /\ Level1Side(calls[k].sides[i], sf[1], sf[2])
                          /\ Level1Side(calls[k].sides[3 - i], sf[3], sf[4])}) = 1

\* the traversal of one tree refined once has returned after reporting a
\* face between two of the quadrants
C9_Witness ==
  /\ OneTreeRefinedOnce
  /\ pc = "return"
  /\ TwoSidedCalls # {}

\* C10 (as amended): after the traversal of one tree refined once, the face
\* callback was invoked 8 times for faces on the boundary of the tree, once
\* for each of the two quadrant faces on each of the 4 tree faces, each time
\* with the one side of the quadrant and no record for the far side.
C10_EndToEndBoundary ==
  (OneTreeRefinedOnce /\ pc = "return") =>
    /\ Cardinality(BoundaryCalls) = 8
    /\ BoundaryCalls = OneSidedCalls
    /\ \A bf \in TreeBoundaryFaces :
         Cardinality({k \in OneSidedCalls :
                        Level1Side(calls[k].sides[1], bf[1], bf[2])}) = 1

\* the traversal of one tree refined once has returned after reporting a
\* face on the boundary of the tree
C10_Witness ==
  /\ OneTreeRefinedOnce
  /\ pc = "return"
  /\ BoundaryCalls # {}

\* C10 (as stated): after the traversal of one tree refined once, the number
\* of invocations of the face callback for faces on the boundary is 4.
C10_Original ==
  (OneTreeRefinedOnce /\ pc = "return") => Cardinality(BoundaryCalls) = 4

\* the invocations of the corner callback with four sides
FourSidedCorners == {k \in CornerCalls : Len(calls[k].sides) = 4}

\* C11: after the traversal of one tree refined once, the corner shared by
\* the four quadrants was reported by exactly one invocation of the corner
\* callback; its four sides hold the four local quadrants, each once, and
\* the corner of each side is the corner of its quadrant at the centre.
C11_CentreCorner ==
  (OneTreeRefinedOnce /\ pc = "return") =>
    /\ Cardinality(FourSidedCorners) = 1
    /\ \A k \in FourSidedCorners :
         /\ {calls[k].sides[i].quadid : i \in 1 .. 4} = 0 .. 3
         /\ \A i \in 1 .. 4 :
              LET side == calls[k].sides[i]
              IN  /\ side.treeid = 0
                  /\ side.is_local
                  /\ ~IsNull(side.quad)
                  /\ side.quad = p4est.quadrants[1][side.quadid + 1]
                  /\ side.corner = P4EST_CHILDREN - 1 - side.quadid
                  /\ p4est_quadrant_child_id(side.quad) = side.quadid

\* the traversal of one tree refined once has returned after reporting a
\* corner with four sides
C11_Witness ==
  /\ OneTreeRefinedOnce
  /\ pc = "return"
  /\ FourSidedCorners # {}

\* the invocations of the volume callback made so far, in order
VolumeCallSeq == Filter(calls, VolumeCalls, 1)

\* C12: when the volume callback is supplied together with a face or corner
\* callback, the invocations of the volume callback made so far are always
\* the first ones of the sequence the volume-only path produces on the same
\* forest (every local quadrant once, by increasing tree and then in stored
\* order), and they are the whole sequence when p4est_iterate has returned.
C12_GeneralPathVolumeOrder ==
  (iter.volume /\ (iter.face \/ iter.corner)
   /\ (pc = "return" \/ (Len(calls) > 0 /\ calls[Len(calls)].type = "volume"))) =>
    /\ Len(VolumeCallSeq) <= Len(VolumeOnlyCalls)
    /\ VolumeCallSeq = SubSeq(VolumeOnlyCalls, 1, Len(VolumeCallSeq))
    /\ pc = "return" => VolumeCallSeq = VolumeOnlyCalls

\* a traversal with all callbacks has returned after visiting local
\* quadrants of two trees, with face callbacks in between, on a process that
\* owns only a part of the forest
C12_Witness ==
  /\ pc = "return"
  /\ iter.volume /\ iter.face
  /\ p4est.mpisize = 2
  /\ Len(VolumeCallSeq) >= 3
  /\ VolumeCallSeq[1].treeid # VolumeCallSeq[Len(VolumeCallSeq)].treeid
  /\ VolumeCallSeq[Len(VolumeCallSeq)].quadid > 0
  /\ \E k \in FaceCalls : \E j \in VolumeCalls : k < j

(***************************************************************************)
(* The tier rings on their own: p4est_iter_tier_insert is called directly,  *)
(* with any sequence of keys, on the rings of a fresh iteration context.    *)
(***************************************************************************)
\* number of different keys the calls choose from: one more than the ring
\* of a level holds on one process
TierKeys == P4EST_CHILDREN + 1

\* one tree on one process: the root and its first child are refined
TierForest ==
  MakeForest(Connectivities[1],
             <<(Children(Quad(0, 0, 0)) \ {Quad(0, 0, 1)})
                 \cup Children(Quad(0, 0, 1))>>,
             0, 7, TRUE)

\* the calls: <<level, q>>, q a pointer to a quadrant of the tree or NULL;
\* level 0 has a ring, level P4EST_QMAXLEVEL has none
TierRequests ==
  {<<0, <<0, k>>>> : k \in 0 .. TierKeys - 1}
  \cup {<<QMAXLEVEL, <<0, 0>>>>, <<0, NULL>>}

TierInit ==
  /\ step = 0
  /\ p4est = TierForest
  /\ iter = [volume |-> FALSE, face |-> FALSE, corner |-> FALSE]
  /\ pc = "p4est_iter_tier_insert"
  /\ top = [t |-> 0, i |-> 0]
  /\ vol = NULL
  /\ face = NULL
  /\ loop_args = p4est_iter_loop_args_new(p4est.conn, FALSE, p4est.mpisize)
  /\ calls = <<>>
  /\ init_calls = <<>>
  /\ allocs = <<>>
  /\ tier_log = [done |-> {}, recent |-> <<>>, last |-> NULL]
  /\ face_code = 0
  /\ hanging_face = <<>>
  /\ hanging_edge = <<>>
  /\ decode_ret = NULL
  /\ base = BaseStatics
  /\ earlier = NULL
  /\ lower_bound = NULL

\* one call of p4est_iter_tier_insert on the view that starts at q and ends
\* with the tree.  tier_log keeps the pairs computed so far (done), the
\* keys of the calls at level 0 that were not among the last `capacity`
\* such keys, oldest first and cut to that number (recent), and the call.
TierInsert ==
  /\ pc = "p4est_iter_tier_insert"
  /\ \E req \in TierRequests :
       LET level == req[1]
           q == req[2]
           first == IF q = NULL THEN 0 ELSE q[2]
           count == Len(p4est.quadrants[1]) - first
           capacity == Len(At(loop_args.tier_rings, 0).tiers)
           ringed == level < Len(loop_args.tier_rings)
           window == tier_log.recent
           cached == /\ ringed
                     /\ \E j \in 1 .. Len(window) : window[j] = q
           hitBefore == IF tier_log.last = NULL THEN NULL
                        ELSE IF tier_log.last.cached THEN tier_log.last.q
                        ELSE NULL
       IN  \E r \in {p4est_iter_tier_insert(p4est.quadrants[1], first, count,
                                            level, first,
                                            loop_args.tier_rings, q)} :
             /\ loop_args' = [loop_args EXCEPT !.tier_rings = r.tier_rings]
             /\ tier_log' =
                  [done |-> IF r.computed THEN tier_log.done \cup {req}
                            ELSE tier_log.done,
                   recent |-> IF ~(ringed /\ r.computed) THEN window
                              ELSE IF Len(window) < capacity
                              THEN Append(window, q)
                              ELSE Append(Tail(window), q),
                   last |-> [level |-> level, q |-> q,
                             computed |-> r.computed,
                             seen |-> req \in tier_log.done,
                             cached |-> cached,
                             next_tier |-> r.next_tier,
                             evicted |-> IF ringed /\ r.computed
                                            /\ Len(window) = capacity
                                         THEN Head(window) ELSE NULL,
                             after_hit |-> hitBefore]]
  /\ UNCHANGED <<step, p4est, iter, pc, top, vol, face, calls, init_calls,
                 allocs, lnodes, base, earlier, lower_bound>>

TierNext == TierInsert

TierSpec == TierInit /\ [][TierNext]_vars

\* C13 (as amended): a call of p4est_iter_tier_insert with a key computes
\* the bisection unless the level has a ring and the key is among the last
\* `capacity` keys computed for that ring; so it is computed on the first
\* use of a pair, and again on a later use once `capacity` other keys have
\* been computed at that level, or at a level without a ring.  Cached or
\* not, the offsets returned are those of the bisection of the view.
C13_ComputedUnlessCached ==
  (tier_log # NULL /\ tier_log.last # NULL) =>
    LET c == tier_log.last
    IN  c.q # NULL =>
          /\ c.computed <=> ~c.cached
          /\ ~c.seen => c.computed
          /\ c.next_tier =
               p4est_iter_tier_update(p4est.quadrants[1], c.q[2],
                                      Len(p4est.quadrants[1]) - c.q[2],
                                      c.level, c.q[2])

\* a pair that was computed before is looked up at the level of the ring
\* after its tier was overwritten, and is computed again
C13_Witness ==
  /\ tier_log # NULL
  /\ tier_log.last # NULL
  /\ tier_log.last.level = 0
  /\ tier_log.last.q # NULL
  /\ tier_log.last.seen
  /\ tier_log.last.computed

\* C13 as stated, for the calls at the level that has a ring: the bisection
\* of a pair is computed on its first use only
C13_Original ==
  (tier_log # NULL /\ tier_log.last # NULL) =>
    ((tier_log.last.level = 0 /\ tier_log.last.seen)
       => ~tier_log.last.computed)

\* C14: in a full ring a miss overwrites the tier that was stored earliest,
\* at position ring->next, which then advances modulo the capacity, however
\* recently that tier was hit; a hit changes neither the tiers nor ring->next.
C14_RingReplacement ==
  [][LET c == tier_log'.last
         rings == loop_args.tier_rings
     IN  (c.q # NULL /\ c.level < Len(rings)) =>
           LET ring == At(rings, c.level)
               after == At(loop_args'.tier_rings, c.level)
               limit == Len(ring.tiers)
               hit == \E i \in 0 .. limit - 1 : At(ring.tiers, i).key = c.q
               full == \A i \in 0 .. limit - 1 : At(ring.tiers, i).key # NULL
           IN  /\ hit => loop_args'.tier_rings = rings
               /\ (full /\ ~hit) =>
                     /\ At(ring.tiers, ring.next).key = Head(tier_log.recent)
                     /\ after.next = (ring.next + 1) % limit
                     /\ after.tiers =
                          Put(ring.tiers, ring.next,
                              [key |-> c.q, array |-> c.next_tier])]_vars

\* C14 witness: a miss in a full ring has just overwritten the tier that the
\* call before it had hit.
C14_Witness ==
  /\ tier_log # NULL
  /\ tier_log.last # NULL
  /\ tier_log.last.evicted # NULL
  /\ tier_log.last.evicted = tier_log.last.after_hit

\* C39: after any sequence of calls of p4est_iter_tier_insert, in every
\* ring next is a position of the ring, the tiers with a key come before
\* the tiers without one, next is the number of tiers with a key while
\* there is a tier without one (so the assertion ring->next == i holds in
\* the next call), and no key is in two tiers of the ring.
C39_RingShape ==
  loop_args # NULL =>
    \A l \in 0 .. Len(loop_args.tier_rings) - 1 :
      LET ring == At(loop_args.tier_rings, l)
          limit == Len(ring.tiers)
          occupied == {i \in 0 .. limit - 1 : At(ring.tiers, i).key # NULL}
      IN  /\ 0 <= ring.next /\ ring.next < limit
          /\ occupied = 0 .. Cardinality(occupied) - 1
          /\ Cardinality(occupied) < limit => ring.next = Cardinality(occupied)
          /\ \A i \in occupied : \A j \in occupied :
               At(ring.tiers, i).key = At(ring.tiers, j).key => i = j

\* the ring of level 0 is full, its oldest tier is neither the first nor
\* the last, and the last call has overwritten a tier
C39_Witness ==
  /\ tier_log # NULL
  /\ tier_log.last # NULL
  /\ tier_log.last.evicted # NULL
  /\ At(loop_args.tier_rings, 0).next = 2
  /\ \A i \in 0 .. P4EST_CHILDREN - 1 :
       At(At(loop_args.tier_rings, 0).tiers, i).key # NULL

(***************************************************************************)
(* p6est_lnodes_decode (example/p6est/p6est_lnodes.h).  A face_code is a    *)
(* non-negative int16_t; hanging_face has 6 and hanging_edge 12 entries.   *)
(* p4est_lnodes_decode and the tables it reads belong to p4est_lnodes.h    *)
(* and p8est_connectivity.c (faces in z-order 0:-x 1:+x 2:-y 3:+y).        *)
(***************************************************************************)
INT16_MAX == 32767

\* indexed by corner: the two z-order faces that meet at the corner
lnodes_corner_faces == <<<<0, 2>>, <<1, 2>>, <<0, 3>>, <<1, 3>>>>
\* indexed by corner and face: the position of the corner on the face
lnodes_corner_face_corners ==
  <<<<0, -1, 0, -1>>, <<-1, 0, 1, -1>>, <<1, -1, -1, 0>>, <<-1, 1, -1, 1>>>>
\* indexed by face of the prism: its four edges
p8est_face_edges ==
  <<<<4, 6, 8, 10>>, <<5, 7, 9, 11>>, <<0, 2, 8, 9>>, <<1, 3, 10, 11>>,
    <<0, 1, 4, 5>>, <<2, 3, 6, 7>>>>

\* a ^ b on non-negative integers
RECURSIVE BitXor(_, _)
BitXor(a, b) ==
  IF a = 0 THEN b
  ELSE IF b = 0 THEN a
  ELSE 2 * BitXor(a \div 2, b \div 2) + (((a % 2) + (b % 2)) % 2)

\* memset (arr, -1, n * sizeof (int))
Memset(arr, n) == [i \in 1 .. Len(arr) |-> IF i <= n THEN -1 ELSE arr[i]]

\* p4est_lnodes_decode: the corner c of the parent that the cell touches in
\* bits 0..1, one flag for each of the two faces at that corner in bits 2..3
p4est_lnodes_decode(fc4, hf) ==
  IF fc4 # 0
  THEN LET c == fc4 % 4
           work == fc4 \div 4
           f0 == At(At(lnodes_corner_faces, c), 0)
           f1 == At(At(lnodes_corner_faces, c), 1)
           mark(a, f, w) ==
             Put(a, f, IF w % 2 = 1
                       THEN At(At(lnodes_corner_face_corners, c), f)
                       ELSE -1)
       IN  [ret |-> 1,
            hanging_face |-> mark(mark(Memset(hf, 4), f0, work),
                                  f1, work \div 2)]
  ELSE [ret |-> 0, hanging_face |-> hf]

ZeroCodeClear(hf, he) ==
  [ret |-> 0, hanging_face |-> Memset(hf, 6), hanging_edge |-> Memset(he, 12)]

\* the else branch: nothing is hanging, the arrays are not written
ZeroCode(hf, he) == [ret |-> 0, hanging_face |-> hf, hanging_edge |-> he]

HasHangingLow(code) == code % 16 # 0

\* if (face_code)
HasHanging(code) == code # 0

SiblingShiftWide(h) == 4 * h

\* h2 = h << 1
SiblingShift(h) == 2 * h

LayerFlagsLow(code) == code \div 16

\* work = face_code >> 5
LayerFlags(code) == code \div 32

\* one pass of the loop over the side faces f = 0 .. 3
DecodeSideFace(st, f, h, work) ==
  LET fe == At(p8est_face_edges, f)
      hf == At(st.hanging_face, f)
      nested(he) ==
        IF hf >= 0
        THEN Put(Put(Put(he, At(fe, 0), 2 + hf), At(fe, 1), 2 + hf),
                 At(fe, BitXor(3, hf)), 4)
        ELSE he
      layer(he) ==
        IF work % 2 = 1
        THEN Put(Put(Put(he, At(fe, BitXor(1, h)), 4), At(fe, 2), 2 + h),
                 At(fe, 3), 2 + h)
        ELSE he
  IN  [hanging_face |->
         IF work % 2 = 1 /\ hf >= 0
         THEN Put(st.hanging_face, f, hf + SiblingShift(h))
         ELSE st.hanging_face,
       hanging_edge |-> layer(nested(st.hanging_edge))]

RECURSIVE SideFaces(_, _, _, _)
SideFaces(st, f, h, work) ==
  IF f < 4
  THEN SideFaces(DecodeSideFace(st, f, h, work), f + 1, h, work \div 2)
  ELSE st

\* the loop over the side edges e = 0 .. 3; work has been shifted by the
\* four side-face flags
RECURSIVE SideEdges(_, _, _, _)
SideEdges(he, e, h, work) ==
  IF e < 4
  THEN SideEdges(IF work % 2 = 1 /\ At(he, 8 + e) < 0
                 THEN Put(he, 8 + e, h) ELSE he,
                 e + 1, h, work \div 2)
  ELSE he

p6est_lnodes_decode(code, hf, he) ==
  IF HasHanging(code)
  THEN LET fc4 == code % 16
           h == (code \div 16) % 2
           work == LayerFlags(code)
           finish(st) ==
             [ret |-> 1,
              hanging_face |-> st.hanging_face,
              hanging_edge |-> SideEdges(st.hanging_edge, 0, h, work \div 16)]
       IN  finish(SideFaces(
                    [hanging_face |->
                       p4est_lnodes_decode(fc4, Memset(hf, 6)).hanging_face,
                     hanging_edge |-> Memset(he, 12)],
                    0, h, work))
  ELSE ZeroCode(hf, he)

\* what the caller's arrays may hold before the call: a cleared pair, a pair
\* never written since it was declared, and the result of an earlier decode
PriorArrays ==
  {[hanging_face |-> [i \in 1 .. 6 |-> -1],
    hanging_edge |-> [i \in 1 .. 12 |-> -1]],
   [hanging_face |-> [i \in 1 .. 6 |-> 7 + i],
    hanging_edge |-> [i \in 1 .. 12 |-> 20 - i]],
   [hanging_face |-> <<2, -1, 3, -1, -1, -1>>,
    hanging_edge |-> <<4, -1, 3, -1, 4, -1, 3, -1, 4, 1, 3, -1>>]}

DecodeInit ==
  /\ step = 0
  /\ p4est = TierForest
  /\ iter = [volume |-> FALSE, face |-> FALSE, corner |-> FALSE]
  /\ pc = "p6est_lnodes_decode"
  /\ top = [t |-> 0, i |-> 0]
  /\ vol = NULL
  /\ face = NULL
  /\ loop_args = NULL
  /\ calls = <<>>
  /\ init_calls = <<>>
  /\ allocs = <<>>
  /\ tier_log = NULL
  /\ face_code \in 0 .. INT16_MAX
  /\ \E a \in PriorArrays :
       /\ hanging_face = a.hanging_face
       /\ hanging_edge = a.hanging_edge
  /\ decode_ret = NULL
  /\ base = BaseStatics
  /\ earlier = NULL
  /\ lower_bound = NULL

Decode ==
  /\ pc = "p6est_lnodes_decode"
  /\ \E r \in {p6est_lnodes_decode(face_code, hanging_face, hanging_edge)} :
       /\ hanging_face' = r.hanging_face
       /\ hanging_edge' = r.hanging_edge
       /\ decode_ret' = r.ret
  /\ pc' = "decoded"
  /\ UNCHANGED <<step, p4est, iter, top, vol, face, loop_args, calls,
                 init_calls, allocs, tier_log, face_code, base, earlier, lower_bound>>

DecodeNext == Decode

DecodeSpec == DecodeInit /\ [][DecodeNext]_vars

\* C15: decoding the code zero returns false and writes nothing: an entry of
\* hanging_face or hanging_edge is -1 afterwards exactly if it was -1 before
\* the call.
C15_ZeroCodeKeepsEntries ==
  [][face_code = 0 =>
       /\ decode_ret' = 0
       /\ \A i \in 1 .. 6 : hanging_face'[i] = -1 <=> hanging_face[i] = -1
       /\ \A j \in 1 .. 12 : hanging_edge'[j] = -1 <=> hanging_edge[j] = -1]_vars

\* C15 witness: the code zero has been decoded into arrays that held other
\* values than -1, and they still do.
C15_Witness ==
  /\ pc = "decoded"
  /\ face_code = 0
  /\ decode_ret = 0
  /\ \E i \in 1 .. 6 : hanging_face[i] # -1
  /\ \E j \in 1 .. 12 : hanging_edge[j] # -1

\* C15 as stated: after decoding the code zero all 6 face entries and all 12
\* edge entries are -1, whatever they held before.
C15_Original ==
  (pc = "decoded" /\ face_code = 0) =>
    /\ \A i \in 1 .. 6 : hanging_face[i] = -1
    /\ \A j \in 1 .. 12 : hanging_edge[j] = -1

\* C16: p6est_lnodes_decode returns true exactly when face_code is nonzero,
\* and for face_code zero both arrays are left as they were.
C16_ReturnAndFrame ==
  [][/\ decode_ret' \in {0, 1}
     /\ decode_ret' = 1 <=> face_code # 0
     /\ face_code = 0 =>
          /\ hanging_face' = hanging_face
          /\ hanging_edge' = hanging_edge]_vars

\* C16 witness: the code zero has been decoded, false was returned and the
\* arrays still hold the result of an earlier decode.
C16_Witness ==
  /\ pc = "decoded"
  /\ face_code = 0
  /\ decode_ret = 0
  /\ hanging_face = <<2, -1, 3, -1, -1, -1>>
  /\ hanging_edge = <<4, -1, 3, -1, 4, -1, 3, -1, 4, 1, 3, -1>>

\* C17: after decoding a nonzero non-negative face_code every hanging_edge
\* entry is in -1 .. 4 and every hanging_face entry is -1 or a corner 0 .. 3.
C17_DecodedRanges ==
  (pc = "decoded" /\ face_code # 0) =>
    /\ \A j \in 1 .. 12 : hanging_edge[j] \in -1 .. 4
    /\ \A i \in 1 .. 6 : hanging_face[i] \in -1 .. 3

\* C17 witness: a decoded nonzero code with a face entry 3, an edge in the
\* middle of a face (4) and an edge that is a second half with no hanging
\* face next to it (1).
C17_Witness ==
  /\ pc = "decoded"
  /\ face_code # 0
  /\ \E i \in 1 .. 6 : hanging_face[i] = 3
  /\ \E j \in 1 .. 12 : hanging_edge[j] = 4
  /\ \E k \in 1 .. 12 : hanging_edge[k] = 1

\* C18: for a nonzero code, bits 0..3 are the nested code that decides which
\* side faces hang, bit 4 is the half h, bit 5 + f is the layer flag of side
\* face f and bit 9 + e the layer flag of side edge e; a nonzero code and
\* the nonzero code made of its bits 0..12 decode to the same arrays, and a
\* nonzero code whose bits 0..12 are all zero decodes to -1 everywhere.
C18_BitLayout ==
  [][face_code # 0 =>
       LET bit(k) == (face_code \div Pow2(k)) % 2
           h == bit(4)
           nested == p4est_lnodes_decode(face_code % 16,
                                         [i \in 1 .. 4 |-> -1]).hanging_face
           low == face_code % Pow2(13)
       IN  /\ \A f \in 0 .. 3 :
                At(hanging_face', f) =
                  IF At(nested, f) >= 0
                  THEN At(nested, f) + 2 * h * bit(5 + f)
                  ELSE -1
           /\ \A f \in 0 .. 3 :
                bit(5 + f) = 1 <=>
                  At(hanging_edge', At(At(p8est_face_edges, f), 1 - h)) = 4
           /\ \A e \in 0 .. 3 :
                /\ bit(9 + e) = 1 => At(hanging_edge', 8 + e) >= 0
                /\ At(hanging_edge', 8 + e) \in {0, 1} =>
                     bit(9 + e) = 1 /\ At(hanging_edge', 8 + e) = h
           /\ low # 0 =>
                \E r \in {p6est_lnodes_decode(low, hanging_face,
                                              hanging_edge)} :
                  /\ hanging_face' = r.hanging_face
                  /\ hanging_edge' = r.hanging_edge
           /\ low = 0 =>
                /\ \A i \in 1 .. 6 : hanging_face'[i] = -1
                /\ \A j \in 1 .. 12 : hanging_edge'[j] = -1]_vars

\* C18 witness: a decoded code with a bit above bit 12 set, a hanging side
\* face in the second half (entry 2 or 3) and a side edge hanging on its own.
C18_Witness ==
  /\ pc = "decoded"
  /\ face_code >= Pow2(13)
  /\ \E f \in 1 .. 4 : hanging_face[f] >= 2
  /\ \E e \in 9 .. 12 : hanging_edge[e] = 1

\* C18 as stated: any two non-negative codes that agree on bits 0..12, the
\* code zero included, decode to the same arrays.
C18_Original ==
  [][\E r \in {p6est_lnodes_decode(face_code % Pow2(13), hanging_face,
                                   hanging_edge)} :
       /\ hanging_face' = r.hanging_face
       /\ hanging_edge' = r.hanging_edge]_vars

Advance == pc # "return" /\ Tick

\* p4est_iterate is one sequential call that nothing interrupts: as long as
\* it has not returned, it takes its next step
FairSpec == Spec /\ WF_step(Advance)

C22_OffsetsAreBisection ==
  [][LET la == loop_args
         Level == la.level
         cnt(st) == At(la.count, st)
         fi(st) == At(la.first_index, st)
         arr(st) == ArrayOf(p4est, At(la.quadrants, st))
         isLeaf(st) == cnt(st) > 0 /\ arr(st)[fi(st) + 1].level = Level
         leafSide(side) == isLeaf(side * 2 + local) \/ isLeaf(side * 2 + ghost)
         empty(side) == cnt(side * 2 + local) = 0 /\ cnt(side * 2 + ghost) = 0
         bisected(st, level_idx2) ==
           LET off(i) == Index(loop_args', st,
                               level_idx2 + P4EST_ITER_STRIDE + i)
           IN  /\ off(0) = fi(st)
               /\ off(P4EST_CHILDREN) = fi(st) + cnt(st)
               /\ \A i \in 0 .. P4EST_CHILDREN - 1 :
                    /\ off(i) <= off(i + 1)
                    /\ \A k \in fi(st) .. fi(st) + cnt(st) - 1 :
                         (off(i) <= k /\ k < off(i + 1))
                           <=> p4est_quadrant_ancestor_id(arr(st)[k + 1],
                                                          Level + 1) = i
     IN  /\ (pc = "volume_loop" /\ ~isLeaf(local) /\ ~isLeaf(ghost)) =>
              \A type \in {local, ghost} : bisected(type, vol.level_idx2)
         /\ pc = "face_loop" =>
              LET limit == FaceLimit(face.args.outside_face)
                  inserted ==
                    \A side \in left .. limit :
                      leafSide(side) =>
                        /\ iter.face
                        /\ ~face.args.outside_face
                        /\ ~leafSide(1 - side)
                        /\ ~empty(1 - side)
              IN  inserted =>
                    \A side \in left .. limit :
                      ~leafSide(side) =>
                        \A type \in {local, ghost} :
                          bisected(side * 2 + type, face.level_idx2)]_vars

\* C22 witness: the search of a face on the boundary of a tree has just
\* descended from the root of the tree, and the tier of the root in the
\* ring of level 0, which holds the offsets now in use, is not the tier
\* stored last: the lookup was a hit.
C22_Witness ==
  /\ pc = "face_change"
  /\ face.args.outside_face
  /\ face.start_level = 0
  /\ loop_args.level = 1
  /\ At(loop_args.level_num, 1) = 0
  /\ LET ring == At(loop_args.tier_rings, 0)
         st == left * 2 + local
         key == <<At(loop_args.quadrants, st), 0>>
     IN  \E i \in 0 .. Len(ring.tiers) - 1 :
           /\ At(ring.tiers, i).key = key
           /\ (i + 1) % Len(ring.tiers) # ring.next
           /\ \A j \in 0 .. P4EST_CHILDREN :
                Index(loop_args, st, P4EST_ITER_STRIDE + j)
                  = At(At(ring.tiers, i).array, j)

\* C23: in a branch of the volume search (the quadrants of tree t below an
\* ancestor A that is not a leaf), when a face callback is invoked by a face
\* search that the branch started, the volume callback has been invoked for
\* every local quadrant below A and the corner callback has not been invoked
\* for the centre of A; when the corner callback is invoked for the centre
\* of A, the face callback has been invoked for every face of a local
\* quadrant below A that lies on a midline of A.
C23_BranchOrder ==
  [][LET la == loop_args
         t == top.t
         tree == p4est.quadrants[t + 1]
         first == tree[Index(la, local, vol.level_idx2) + 1]
         Inside(lb, q) ==
           /\ q.level > lb
           /\ MaskTo(q.x, lb) = MaskTo(first.x, lb)
           /\ MaskTo(q.y, lb) = MaskTo(first.y, lb)
         OnMidline(lb, q, f) ==
           LET c == IF f \div 2 = 0 THEN q.x ELSE q.y
               a == IF f \div 2 = 0 THEN first.x ELSE first.y
               mid == MaskTo(a, lb) + P4EST_QUADRANT_LEN(lb + 1)
           IN  IF f % 2 = 1 THEN c + P4EST_QUADRANT_LEN(q.level) = mid
               ELSE c = mid
         Centre(lb, c) ==
           /\ c.type = "corner"
           /\ \E i \in 1 .. Len(c.sides) : ~IsNull(c.sides[i].quad)
           /\ \A i \in 1 .. Len(c.sides) :
                LET q == c.sides[i].quad
                    h == P4EST_QUADRANT_LEN(q.level)
                    mid == P4EST_QUADRANT_LEN(lb + 1)
                IN  /\ c.sides[i].treeid = t
                    /\ ~IsNull(q) =>
                         /\ Inside(lb, q)
                         /\ q.x + (c.sides[i].corner % 2) * h
                              = MaskTo(first.x, lb) + mid
                         /\ q.y + (c.sides[i].corner \div 2) * h
                              = MaskTo(first.y, lb) + mid
         appended == Len(calls') = Len(calls) + 1
     IN  /\ (pc = "face_loop" /\ face.caller = "volume" /\ appended) =>
              LET lb == face.start_level - 1
              IN  /\ iter.volume =>
                       \A i \in 1 .. Len(tree) :
                         Inside(lb, tree[i]) =>
                           \E k \in VolumeCalls :
                             calls[k].treeid = t /\ calls[k].quadid = i - 1
                  /\ \A k \in CornerCalls : ~Centre(lb, calls[k])
         /\ (pc = "volume_corner" /\ appended) =>
              LET lb == la.level - 1
              IN  /\ Centre(lb, calls'[Len(calls')])
                  /\ iter.face =>
                       \A i \in 1 .. Len(tree) :
                         \A f \in 0 .. 2 * P4EST_DIM - 1 :
                           (Inside(lb, tree[i]) /\ OnMidline(lb, tree[i], f))
                             => ReportsOf(t, i - 1, f) # {}]_vars

\* C23 witness: with all three callbacks, on a process that owns a part of
\* the forest, the corner callback was just invoked for the centre of a
\* branch below the root of a tree, after volume and face callbacks.
C23_Witness ==
  /\ pc = "volume_change"
  /\ iter.volume /\ iter.face /\ iter.corner
  /\ p4est.mpisize = 2
  /\ loop_args.level = 1
  /\ Len(calls) > 2
  /\ calls[Len(calls)].type = "corner"
  /\ Len(calls[Len(calls)].sides) = P4EST_CHILDREN
  /\ calls[Len(calls) - 1].type = "face"

C25_VolumeFirst ==
  [][(iter.volume /\ Len(calls') = Len(calls) + 1) =>
       LET c == calls'[Len(calls')]
           Visited(t, id) ==
             \E k \in VolumeCalls : calls[k].treeid = t /\ calls[k].quadid = id
       IN  /\ c.type = "face" =>
                \A i \in 1 .. Len(c.sides) :
                  LET s == c.sides[i]
                  IN  IF s.is_hanging
                      THEN \A j \in 1 .. P4EST_CHILDREN \div 2 :
                             s.is_local[j] => Visited(s.treeid, s.quadid[j])
                      ELSE s.is_local => Visited(s.treeid, s.quadid)
           /\ c.type = "corner" =>
                \A i \in 1 .. Len(c.sides) :
                  LET s == c.sides[i]
                  IN  s.is_local => Visited(s.treeid, s.quadid)]_vars

\* C25 witness: with all callbacks, the corner callback was just invoked for
\* a corner between two trees with local quadrants of both trees among its
\* sides.
C25_Witness ==
  /\ iter.volume /\ iter.face /\ iter.corner
  /\ Len(calls) > 0
  /\ LET c == calls[Len(calls)]
     IN  /\ c.type = "corner"
         /\ \E i, j \in 1 .. Len(c.sides) :
              /\ c.sides[i].treeid # c.sides[j].treeid
              /\ c.sides[i].is_local
              /\ c.sides[j].is_local

\* C26: in the search of a face with two sides and a face callback, when the
\* search area of one side is a single quadrant of the current level and
\* the search area of the other side has no local and no ghost quadrant,
\* this pass of the loop invokes the face callback once: the first side is
\* full with that quadrant, its position and its provenance, the other side
\* is full with a null quadrant, quadid -1 and is_local false; the level
\* stays the same and the next branch of the level is taken.
C26_EmptyOpposite ==
  [][(pc = "face_loop" /\ iter.face /\ ~face.args.outside_face) =>
       LET la == loop_args
           Level == la.level
           cnt(st) == At(la.count, st)
           fi(st) == At(la.first_index, st)
           quad(st) == ArrayOf(p4est, At(la.quadrants, st))[fi(st) + 1]
           isLeaf(st) == cnt(st) > 0 /\ quad(st).level = Level
       IN  \A side \in {left, right} : \A type \in {local, ghost} :
             (/\ isLeaf(side * 2 + type)
              /\ cnt((1 - side) * 2 + local) = 0
              /\ cnt((1 - side) * 2 + ghost) = 0) =>
               /\ Len(calls') = Len(calls) + 1
               /\ SubSeq(calls', 1, Len(calls)) = calls
               /\ LET c == calls'[Len(calls')]
                      near == c.sides[side + 1]
                      far == c.sides[(1 - side) + 1]
                  IN  /\ c.type = "face"
                      /\ Len(c.sides) = 2
                      /\ ~near.is_hanging
                      /\ near.quad = quad(side * 2 + type)
                      /\ near.quadid = fi(side * 2 + type)
                      /\ near.is_local = (type = local)
                      /\ ~far.is_hanging
                      /\ IsNull(far.quad)
                      /\ far.quadid = -1
                      /\ far.is_local = FALSE
               /\ loop_args'.level = Level
               /\ At(loop_args'.level_num, Level) = At(la.level_num, Level) + 1
               /\ pc' = "face_change"]_vars

\* C26 witness: the face callback was just invoked for a face between two
\* trees with a local quadrant on one side and a null quadrant on the other.
C26_Witness ==
  /\ pc = "face_change"
  /\ Len(calls) > 0
  /\ LET c == calls[Len(calls)]
     IN  /\ c.type = "face"
         /\ Len(c.sides) = 2
         /\ c.sides[1].treeid # c.sides[2].treeid
         /\ \E i \in 1 .. 2 :
              /\ ~c.sides[i].is_hanging
              /\ IsNull(c.sides[i].quad)
              /\ c.sides[i].quadid = -1
              /\ ~c.sides[3 - i].is_hanging
              /\ c.sides[3 - i].is_local

C28_QuadidNamesQuadrant ==
  \A k \in FaceCalls \cup CornerCalls :
    \A i \in 1 .. Len(calls[k].sides) :
      LET s == calls[k].sides[i]
          Named(quad, quadid, is_local) ==
            LET seq == IF is_local THEN p4est.quadrants[s.treeid + 1]
                       ELSE p4est.ghost_layer
            IN  /\ IsNull(quad) <=> quadid = -1
                /\ ~IsNull(quad) =>
                     /\ quadid \in 0 .. Len(seq) - 1
                     /\ seq[quadid + 1] = quad
      IN  IF calls[k].type = "face" /\ s.is_hanging
          THEN \A j \in 1 .. P4EST_CHILDREN \div 2 :
                 Named(s.quad[j], s.quadid[j], s.is_local[j])
          ELSE Named(s.quad, s.quadid, s.is_local)

\* C28 witness: the callbacks made so far include a corner side with a
\* ghost of the second tree that is not the first entry of the ghost layer,
\* and a face with a local quadrant of the second tree that is not the first
\* one of its tree.
C28_Witness ==
  /\ \E k \in CornerCalls : \E i \in 1 .. Len(calls[k].sides) :
       /\ calls[k].sides[i].treeid = 1
       /\ ~calls[k].sides[i].is_local
       /\ calls[k].sides[i].quadid > 0
  /\ \E k \in FaceCalls : \E i \in 1 .. Len(calls[k].sides) :
       /\ calls[k].sides[i].treeid = 1
       /\ ~calls[k].sides[i].is_hanging
       /\ calls[k].sides[i].is_local
       /\ calls[k].sides[i].quadid > 0

\* C29: in every invocation of the corner callback, each side holds the
\* quadrant of its search area that is equal to or an ancestor of the
\* smallest quadrant in the side's corner of the ancestor of the search
\* area: from the local quadrants of the area if one of them is, else from
\* the ghosts of the area if one of them is, and a null quadrant exactly if
\* none is; whichever corner the side names.
C29_CornerSideQuadrant ==
  [][(pc \in {"volume_corner", "face_change", "top_corner"}
      /\ Len(calls') = Len(calls) + 1) =>
       LET c == calls'[Len(calls')]
           la == loop_args'
           level == IF pc = "top_corner" THEN la.level ELSE loop_args.level
           far == P4EST_QUADRANT_LEN(level) - P4EST_QUADRANT_LEN(QMAXLEVEL)
           first(st) == At(la.first_index, st)
           arr(st) == ArrayOf(p4est, At(la.quadrants, st))
           area(st) == first(st) .. first(st) + At(la.count, st) - 1
           Touching(st, corner) ==
             {k \in area(st) :
                LET q == arr(st)[k + 1]
                    temp == Quad(MaskTo(q.x, level)
                                   + (IF corner % 2 = 1 THEN far ELSE 0),
                                 MaskTo(q.y, level)
                                   + (IF corner \div 2 = 1 THEN far ELSE 0),
                                 QMAXLEVEL)
                IN  q = temp \/ p4est_quadrant_is_ancestor(q, temp)}
       IN  /\ c.type = "corner"
           /\ \A i \in 1 .. Len(c.sides) :
                LET s == c.sides[i]
                    l == Touching((i - 1) * 2 + local, s.corner)
                    g == Touching((i - 1) * 2 + ghost, s.corner)
                IN  /\ l # {} =>
                         /\ s.is_local
                         /\ s.quadid \in l
                         /\ s.quad = arr((i - 1) * 2 + local)[s.quadid + 1]
                    /\ (l = {} /\ g # {}) =>
                         /\ ~s.is_local
                         /\ s.quadid \in g
                         /\ s.quad = arr((i - 1) * 2 + ghost)[s.quadid + 1]
                    /\ (l = {} /\ g = {}) <=> IsNull(s.quad)]_vars

\* C29 witness: the corner callback was just invoked for a corner of a
\* tree, with sides whose search areas hold more than one local quadrant,
\* among them a side with corner 0, a side with the last corner and a side
\* with a corner in between.
C29_Witness ==
  /\ Len(calls) > 0
  /\ loop_args # NULL
  /\ LET c == calls[Len(calls)]
         Many(i) == At(loop_args.count, (i - 1) * 2 + local) > 1
     IN  /\ c.type = "corner"
         /\ pc \in {"top_corner", "tree"}
         /\ \E i \in 1 .. Len(c.sides) :
              Many(i) /\ c.sides[i].corner = 0 /\ c.sides[i].is_local
         /\ \E i \in 1 .. Len(c.sides) :
              Many(i) /\ c.sides[i].corner = P4EST_CHILDREN - 1
                /\ c.sides[i].is_local
         /\ \E i \in 1 .. Len(c.sides) :
              Many(i) /\ c.sides[i].corner \in 1 .. P4EST_CHILDREN - 2
                /\ c.sides[i].is_local

\* the invocations of the corner callback that report the local quadrant id
\* of tree t at its corner c
CornerReportsOf(t, id, c) ==
  {k \in CornerCalls :
     \E i \in 1 .. Len(calls[k].sides) :
       /\ calls[k].sides[i].treeid = t
       /\ calls[k].sides[i].corner = c
       /\ calls[k].sides[i].is_local
       /\ calls[k].sides[i].quadid = id}

\* corner c of leaf q of tree t lies in the interior of a face of a leaf
\* that is coarser than q: c is not the corner q shares with its parent,
\* and across a face of q at c that is also on a face of the parent lies a
\* leaf of the level of the parent
HangingCorner(t, q, c) ==
  /\ q.level > 0
  /\ c # p4est_quadrant_child_id(q)
  /\ \E f \in {c % 2, 2 + (c \div 2)} :
       /\ f \in {p4est_quadrant_child_id(q) % 2,
                 2 + (p4est_quadrant_child_id(q) \div 2)}
       /\ LET n == NeighborAt(p4est.conn, t, q, FaceDir(p4est.conn, t, f))
          IN  /\ n # NULL
              /\ \E r \in Leaves(n.tree) :
                   p4est_quadrant_is_ancestor(r, n.quad)

\* C30: when p4est_iterate has returned from a call with a corner callback,
\* every corner of every local quadrant that is not hanging was reported,
\* with that quadrant on a side, by exactly one invocation of the corner
\* callback.
C30_EveryLocalCornerOnce ==
  (pc = "return" /\ iter.corner) =>
    \A t \in TreeIds(p4est.conn) :
      \A id \in 0 .. Len(p4est.quadrants[t + 1]) - 1 :
        \A c \in 0 .. P4EST_CHILDREN - 1 :
          ~HangingCorner(t, p4est.quadrants[t + 1][id + 1], c) =>
            Cardinality(CornerReportsOf(t, id, c)) = 1

\* C30 witness: a traversal with a corner callback has returned on a
\* process that owns a part of a forest of two trees; a local quadrant has a
\* hanging corner, and a corner between the two trees was reported with a
\* ghost on one side.
C30_Witness ==
  /\ pc = "return"
  /\ iter.corner
  /\ NumTrees(p4est.conn) = 2
  /\ p4est.mpisize = 2
  /\ \E t \in TreeIds(p4est.conn) :
       \E id \in 0 .. Len(p4est.quadrants[t + 1]) - 1 :
         \E c \in 0 .. P4EST_CHILDREN - 1 :
           HangingCorner(t, p4est.quadrants[t + 1][id + 1], c)
  /\ \E k \in CornerCalls : \E i, j \in 1 .. Len(calls[k].sides) :
       /\ calls[k].sides[i].treeid # calls[k].sides[j].treeid
       /\ calls[k].sides[i].is_local
       /\ ~calls[k].sides[j].is_local
       /\ ~IsNull(calls[k].sides[j].quad)

\* C31: the corner callback is never invoked for a corner that lies in the
\* interior of a face of a coarser leaf that is a local quadrant or a ghost:
\* no side of an invocation holds a quadrant whose reported corner is such a
\* corner; and p4est_face_iterate runs the corner search only at a depth
\* below its starting depth, where the search area of every side at the
\* depth above holds no quadrant of that depth (it was subdivided, or it is
\* empty).
C31_NoHangingCorner ==
  /\ [](\A k \in CornerCalls : \A i \in 1 .. Len(calls[k].sides) :
          LET s == calls[k].sides[i]
              HangingAt(t, q, c) ==
                /\ q.level > 0
                /\ c # p4est_quadrant_child_id(q)
                /\ \E f \in {c % 2, 2 + (c \div 2)} :
                     /\ f \in {p4est_quadrant_child_id(q) % 2,
                               2 + (p4est_quadrant_child_id(q) \div 2)}
                     /\ LET n == NeighborAt(p4est.conn, t, q,
                                            FaceDir(p4est.conn, t, f))
                        IN  /\ n # NULL
                            /\ \E r \in Leaves(n.tree) :
                                 /\ p4est_quadrant_is_ancestor(r, n.quad)
                                 /\ Present(n.tree, r)
          IN  ~IsNull(s.quad) => ~HangingAt(s.treeid, s.quad, s.corner))
  /\ [][(pc = "face_change" /\ Len(calls') = Len(calls) + 1) =>
          /\ calls'[Len(calls')].type = "corner"
          /\ loop_args.level > face.start_level
          /\ \A side \in left .. FaceLimit(face.args.outside_face) :
               \A type \in {local, ghost} :
                 LET st == side * 2 + type
                     lo == Index(loop_args, st, face.level_idx2)
                     hi == Index(loop_args, st,
                                 face.level_idx2 + P4EST_CHILDREN)
                     arr == ArrayOf(p4est, At(loop_args.quadrants, st))
                 IN  \A k \in lo .. hi - 1 :
                       arr[k + 1].level >= loop_args.level]_vars

\* C31 witness: the face search between a coarse local quadrant and its two
\* finer neighbours has reported the hanging face, a corner callback is
\* supplied, and the search has returned to its starting depth.
C31_Witness ==
  /\ pc = "face_change"
  /\ iter.corner
  /\ iter.face
  /\ loop_args.level = face.start_level
  /\ At(loop_args.level_num, face.start_level) > 0
  /\ Len(calls) > 0
  /\ LET c == calls[Len(calls)]
     IN  /\ c.type = "face"
         /\ \E i, j \in 1 .. Len(c.sides) :
              /\ c.sides[i].is_hanging
              /\ ~c.sides[j].is_hanging
              /\ c.sides[j].is_local

\* C31 as stated: no invocation of the corner callback has a side whose
\* quadrant has the reported corner in the interior of a face of a coarser
\* leaf of the forest, whether or not that leaf is known to the process.
C31_Original ==
  \A k \in CornerCalls : \A i \in 1 .. Len(calls[k].sides) :
    ~IsNull(calls[k].sides[i].quad) =>
      ~HangingCorner(calls[k].sides[i].treeid, calls[k].sides[i].quad,
                     calls[k].sides[i].corner)

(***************************************************************************)
(* Two calls of p4est_iterate on the same forest and ghost layer: the      *)
(* first with a corner callback only, the second with a corner callback    *)
(* and a face callback, a volume callback or both.                         *)
(***************************************************************************)
\* the invocations of the corner callback among the callbacks made, in order
CornerCallSeq ==
  LET RECURSIVE pick(_)
      pick(k) == IF k > Len(calls) THEN <<>>
                 ELSE IF calls[k].type = "corner"
                 THEN <<calls[k]>> \o pick(k + 1)
                 ELSE pick(k + 1)
  IN  pick(1)

TwiceInit ==
  /\ Init
  /\ iter = [volume |-> FALSE, face |-> FALSE, corner |-> TRUE]

\* the first call has returned; the caller calls p4est_iterate again with
\* more callbacks
IterateAgain ==
  /\ pc = "return"
  /\ earlier = NULL
  /\ lower_bound = NULL
  /\ Tick
  /\ earlier' = [corners |-> CornerCallSeq]
  /\ iter' \in {[volume |-> TRUE, face |-> TRUE, corner |-> TRUE],
                [volume |-> FALSE, face |-> TRUE, corner |-> TRUE],
                [volume |-> TRUE, face |-> FALSE, corner |-> TRUE]}
  /\ pc' = "p4est_iterate"
  /\ top' = [t |-> 0, i |-> 0]
  /\ vol' = NULL
  /\ face' = NULL
  /\ loop_args' = NULL
  /\ calls' = <<>>
  /\ init_calls' = <<>>
  /\ allocs' = <<>>
  /\ UNCHANGED <<p4est, tier_log, lnodes, base, lower_bound>>

\* p4est_volume_iterate_simple is not reached with a corner callback
TwiceNext ==
  \/ IterateAgain
  \/ Iterate
  \/ Tree
  \/ VolumeLoop
  \/ VolumeChange
  \/ VolumeFaces
  \/ VolumeCorner
  \/ FaceLoop
  \/ FaceChange
  \/ TopFace
  \/ TopCorner

TwiceSpec == TwiceInit /\ [][TwiceNext]_vars

\* C32: a call of p4est_iterate with a corner callback and a face callback,
\* a volume callback or both makes the same invocations of the corner
\* callback, with the same sides and quadrants in the same order, as a call
\* on the same forest with the corner callback only.
C32_CornersIndependent ==
  (pc = "return" /\ earlier # NULL) => CornerCallSeq = earlier.corners

\* C32 witness: both calls have returned; the second had a face callback
\* and reported a hanging face and a face with two full sides, and several
\* corners were reported.
C32_Witness ==
  /\ pc = "return"
  /\ earlier # NULL
  /\ iter.face
  /\ Len(earlier.corners) > 2
  /\ \E k \in FaceCalls : \E i \in 1 .. Len(calls[k].sides) :
       calls[k].sides[i].is_hanging
  /\ \E k \in FaceCalls : \A i \in 1 .. Len(calls[k].sides) :
       ~calls[k].sides[i].is_hanging /\ ~IsNull(calls[k].sides[i].quad)

\* C33: while the iteration context exists, level_num has QMAXLEVEL + 1
\* entries and every index[sidetype] has (QMAXLEVEL + 1) * P4EST_ITER_STRIDE;
\* the depth counter is at least the starting depth of the search in
\* progress (the face search if there is one, else the volume search) and
\* at most QMAXLEVEL, and level_idx2 is the position of that depth in the
\* bounds arrays; a step that descends, or that reads the bounds of the
\* children for a hanging face, is taken at a depth below QMAXLEVEL, so the
\* entries of the next depth it touches exist.
C33_DepthInBounds ==
  /\ [](loop_args # NULL =>
          /\ Len(loop_args.level_num) = QMAXLEVEL + 1
          /\ \A st \in 1 .. loop_args.alloc_size :
               Len(loop_args.index[st]) = (QMAXLEVEL + 1) * P4EST_ITER_STRIDE
          /\ loop_args.level \in 0 .. QMAXLEVEL
          /\ face # NULL =>
               /\ face.start_level \in 0 .. loop_args.level
               /\ face.level_idx2 = loop_args.level * P4EST_ITER_STRIDE
          /\ (face = NULL /\ vol # NULL) =>
               /\ vol.start_level \in 0 .. loop_args.level
               /\ vol.level_idx2 = loop_args.level * P4EST_ITER_STRIDE)
  /\ [][(loop_args # NULL /\ loop_args' # NULL) =>
          LET descends == loop_args'.level > loop_args.level
              hanging ==
                /\ pc = "face_loop"
                /\ Len(calls') = Len(calls) + 1
                /\ \/ calls'[Len(calls')].sides[1].is_hanging
                   \/ /\ ~face.args.outside_face
                      /\ calls'[Len(calls')].sides[2].is_hanging
          IN  /\ descends =>
                   /\ loop_args'.level = loop_args.level + 1
                   /\ loop_args.level + 1 <= QMAXLEVEL
                   /\ At(loop_args'.level_num, loop_args'.level) = 0
              /\ hanging =>
                   (loop_args.level + 2) * P4EST_ITER_STRIDE
                     <= Len(loop_args.index[1])
              /\ loop_args'.level < loop_args.level =>
                   /\ loop_args'.level = loop_args.level - 1
                   /\ IF face # NULL
                      THEN loop_args'.level >= face.start_level
                      ELSE vol # NULL /\ loop_args'.level >= vol.start_level]_vars

\* C33 witness: a face search between the children of a branch, started
\* below depth 0, is at the greatest depth QMAXLEVEL, which is deeper than
\* its starting depth.
C33_Witness ==
  /\ loop_args # NULL
  /\ face # NULL
  /\ face.caller = "volume"
  /\ face.start_level > 0
  /\ loop_args.level = QMAXLEVEL
  /\ loop_args.level > face.start_level

C36_NoCallbackCases ==
  /\ []((\/ (~iter.volume /\ ~iter.face /\ ~iter.corner)
         \/ p4est.first_local_tree < 0) =>
          /\ calls = <<>>
          /\ init_calls = <<>>
          /\ loop_args = NULL
          /\ pc \in {"p4est_iterate", "return"})
  /\ [][(/\ pc = "p4est_iterate"
         /\ \/ (~iter.volume /\ ~iter.face /\ ~iter.corner)
            \/ p4est.first_local_tree < 0) =>
          (pc' = "return" /\ allocs' = <<>>)]_vars

\* C36 witness: p4est_iterate has returned on a process that owns no tree of
\* a forest of two trees, called with a volume, a face and a corner
\* callback.
C36_Witness ==
  /\ pc = "return"
  /\ p4est.first_local_tree < 0
  /\ NumTrees(p4est.conn) = 2
  /\ iter.volume /\ iter.face /\ iter.corner
  /\ calls = <<>>

(***************************************************************************)
(* p4est_abort and the abort hook (src/p4est_base.c).  base.frames holds   *)
(* the calls of p4est_abort in progress, the innermost last: a caught      *)
(* signal runs p4est_signal_handler, which calls p4est_abort again.  A     *)
(* frame records its position and the hook invocations it made.  The hook  *)
(* is code of the caller: it returns or ends the process itself.           *)
(***************************************************************************)
\* a variant of p4est_set_abort_handler that saves the handlers in effect at
\* every call with a handler
p4est_set_abort_handler_resave(b, handler, data) ==
  IF handler # NULL
  THEN [b EXCEPT !.p4est_abort_handler = handler,
                 !.p4est_abort_data = data,
                 !.system_int_handler = b.signal["INT"],
                 !.system_segv_handler = b.signal["SEGV"],
                 !.system_usr2_handler = b.signal["USR2"],
                 !.signal = [sig \in Signals |-> p4est_signal_handler],
                 !.signals_caught = 1]
  ELSE IF b.signals_caught = 1
  THEN [b EXCEPT !.p4est_abort_handler = handler,
                 !.p4est_abort_data = data,
                 !.signal = [sig \in Signals |->
                               IF sig = "INT" THEN b.system_int_handler
                               ELSE IF sig = "SEGV" THEN b.system_segv_handler
                               ELSE b.system_usr2_handler],
                 !.system_int_handler = NULL,
                 !.system_segv_handler = NULL,
                 !.system_usr2_handler = NULL,
                 !.signals_caught = 0]
  ELSE [b EXCEPT !.p4est_abort_handler = handler,
                 !.p4est_abort_data = data]

\* lines 286-310; signal () returns the handler that was in effect, and
\* does not fail for INT, SEGV and USR2
p4est_set_abort_handler(b, handler, data) ==
  IF handler # NULL /\ b.signals_caught = 0
  THEN [b EXCEPT !.p4est_abort_handler = handler,
                 !.p4est_abort_data = data,
                 !.system_int_handler = b.signal["INT"],
                 !.system_segv_handler = b.signal["SEGV"],
                 !.system_usr2_handler = b.signal["USR2"],
                 !.signal = [sig \in Signals |-> p4est_signal_handler],
                 !.signals_caught = 1]
  ELSE IF handler = NULL /\ b.signals_caught = 1
  THEN [b EXCEPT !.p4est_abort_handler = handler,
                 !.p4est_abort_data = data,
                 !.signal = [sig \in Signals |->
                               IF sig = "INT" THEN b.system_int_handler
                               ELSE IF sig = "SEGV" THEN b.system_segv_handler
                               ELSE b.system_usr2_handler],
                 !.system_int_handler = NULL,
                 !.system_segv_handler = NULL,
                 !.system_usr2_handler = NULL,
                 !.signals_caught = 0]
  ELSE [b EXCEPT !.p4est_abort_handler = handler,
                 !.p4est_abort_data = data]

\* lines 312-318; p4est_init_logging stores the identifier (line 237)
p4est_init(b, identifier, handler, data) ==
  p4est_set_abort_handler([b EXCEPT !.p4est_base_identifier = identifier],
                          handler, data)

\* the entry of p4est_abort
AbortFrame == [pc |-> "p4est_abort", hooks |-> <<>>]

TopFrame == base.frames[Len(base.frames)]
SetTopFrame(f) == [base EXCEPT !.frames[Len(base.frames)] = f]

\* a variant of HookInstalled that finds no hook
HookInstalledNever(b) == FALSE

\* line 368
HookInstalled(b) == b.p4est_abort_handler # NULL

AbortInit ==
  /\ step = 0
  /\ p4est = TierForest
  /\ iter = [volume |-> FALSE, face |-> FALSE, corner |-> FALSE]
  /\ pc = "running"
  /\ top = [t |-> 0, i |-> 0]
  /\ vol = NULL
  /\ face = NULL
  /\ loop_args = NULL
  /\ calls = <<>>
  /\ init_calls = <<>>
  /\ allocs = <<>>
  /\ tier_log = NULL
  /\ face_code = 0
  /\ hanging_face = <<>>
  /\ hanging_edge = <<>>
  /\ decode_ret = NULL
  /\ \E handlers \in [Signals -> {SIG_DFL, SIG_IGN, ProgramHandler}] :
       base = [BaseStatics EXCEPT !.signal = handlers]
  /\ earlier = NULL
  /\ lower_bound = NULL

AbortUnchanged ==
  UNCHANGED <<step, p4est, iter, top, vol, face, loop_args, calls,
              init_calls, allocs, tier_log, lnodes, earlier, lower_bound>>

\* the program calls p4est_init
P4estInit ==
  /\ pc = "running"
  /\ base.frames = <<>>
  /\ \E identifier \in {-1, 0, 1},
        handler \in {NULL, <<"handler", 1>>, <<"handler", 2>>},
        data \in {NULL, <<"data", 1>>, <<"data", 2>>} :
       base' = p4est_init(base, identifier, handler, data)
  /\ pc' = pc
  /\ AbortUnchanged

\* the program calls p4est_set_abort_handler
SetAbortHandler ==
  /\ pc = "running"
  /\ base.frames = <<>>
  /\ \E handler \in {NULL, <<"handler", 1>>, <<"handler", 2>>},
        data \in {NULL, <<"data", 1>>, <<"data", 2>>} :
       base' = p4est_set_abort_handler(base, handler, data)
  /\ pc' = pc
  /\ AbortUnchanged

\* the program calls p4est_abort
CallAbort ==
  /\ pc = "running"
  /\ base.frames = <<>>
  /\ base' = [base EXCEPT !.frames = <<AbortFrame>>]
  /\ pc' = pc
  /\ AbortUnchanged

\* lines 43-74: a signal whose handler is p4est_signal_handler arrives, and
\* p4est_signal_handler calls p4est_abort
SignalHandler ==
  /\ pc = "running"
  /\ \E sig \in Signals : base.signal[sig] = p4est_signal_handler
  /\ Len(base.frames) < MaxNest
  /\ base' = [base EXCEPT !.frames = Append(base.frames, AbortFrame)]
  /\ pc' = pc
  /\ AbortUnchanged

\* lines 332-370: the prefix, the flushes, and the hook if there is one
AbortHook ==
  /\ pc = "running"
  /\ base.frames # <<>>
  /\ TopFrame.pc = "p4est_abort"
  /\ base' = IF HookInstalled(base)
             THEN SetTopFrame(
                    [pc |-> "p4est_abort_handler",
                     hooks |-> Append(TopFrame.hooks,
                                      [handler |-> base.p4est_abort_handler,
                                       data |-> base.p4est_abort_data])])
             ELSE SetTopFrame([TopFrame EXCEPT !.pc = "abort"])
  /\ pc' = pc
  /\ AbortUnchanged

\* the hook returns to line 370
HookReturn ==
  /\ pc = "running"
  /\ base.frames # <<>>
  /\ TopFrame.pc = "p4est_abort_handler"
  /\ base' = SetTopFrame([TopFrame EXCEPT !.pc = "abort"])
  /\ pc' = pc
  /\ AbortUnchanged

\* the hook ends the process itself
HookExit ==
  /\ pc = "running"
  /\ base.frames # <<>>
  /\ TopFrame.pc = "p4est_abort_handler"
  /\ pc' = "exit"
  /\ UNCHANGED base
  /\ AbortUnchanged

\* line 372: abort () ends the process
Abort ==
  /\ pc = "running"
  /\ base.frames # <<>>
  /\ TopFrame.pc = "abort"
  /\ pc' = "abort"
  /\ UNCHANGED base
  /\ AbortUnchanged

AbortNext ==
  \/ P4estInit
  \/ SetAbortHandler
  \/ CallAbort
  \/ SignalHandler
  \/ AbortHook
  \/ HookReturn
  \/ HookExit
  \/ Abort

AbortSpec == AbortInit /\ [][AbortNext]_vars

\* C21: no call of p4est_abort returns (a call in progress stays in progress
\* until the process ends); a call has invoked the hook at most once, and
\* when it reaches abort () and when abort () ends the process it has invoked
\* the hook exactly once, with the registered data, if a hook is installed
\* and not at all otherwise; the process ends only from abort () or from
\* inside the hook.
C21_HookThenAbort ==
  /\ [](\A i \in 1 .. Len(base.frames) :
          LET f == base.frames[i]
              hook == [handler |-> base.p4est_abort_handler,
                       data |-> base.p4est_abort_data]
          IN  /\ Len(f.hooks) <= 1
              /\ f.pc = "p4est_abort" => f.hooks = <<>>
              /\ f.pc = "p4est_abort_handler" => f.hooks = <<hook>>
              /\ f.pc = "abort" =>
                   f.hooks = IF base.p4est_abort_handler # NULL
                             THEN <<hook>> ELSE <<>>)
  /\ [][/\ Len(base'.frames) >= Len(base.frames)
        /\ \A i \in 1 .. Len(base.frames) :
             base'.frames[i].hooks # base.frames[i].hooks =>
               i = Len(base.frames) /\ base.frames[i].pc = "p4est_abort"
        /\ pc' # "running" =>
             /\ base.frames # <<>>
             /\ base' = base
             /\ \/ pc' = "abort" /\ TopFrame.pc = "abort"
                \/ pc' = "exit" /\ TopFrame.pc = "p4est_abort_handler"]_vars

\* C21 witness: abort () has ended the process after a call of p4est_abort
\* with a hook installed together with data, and the call was made from the
\* signal handler while an earlier call was inside the hook.
C21_Witness ==
  /\ pc = "abort"
  /\ Len(base.frames) = 2
  /\ base.frames[1].pc = "p4est_abort_handler"
  /\ base.p4est_abort_data # NULL
  /\ TopFrame.hooks = <<[handler |-> base.p4est_abort_handler,
                         data |-> base.p4est_abort_data]>>

\* the handlers p4est_set_abort_handler has saved
SavedHandlers(b) ==
  [sig \in Signals |-> IF sig = "INT" THEN b.system_int_handler
                       ELSE IF sig = "SEGV" THEN b.system_segv_handler
                       ELSE b.system_usr2_handler]

\* C38: after any sequence of calls of p4est_set_abort_handler (p4est_init
\* makes one), INT, SEGV and USR2 are handled by p4est_signal_handler exactly
\* when the most recent call passed a handler; p4est_signal_handler is never
\* among the saved handlers, and nothing is saved while the signals are not
\* caught.  The first call with a handler saves the handlers in effect, a
\* further call with a handler changes neither the saved handlers nor the
\* handlers in effect, and a call without a handler puts the saved handlers
\* back, so that the handlers in effect are those from before the first call
\* with a handler.
C38_SavedHandlers ==
  /\ [](/\ base.signals_caught =
             (IF base.p4est_abort_handler # NULL THEN 1 ELSE 0)
        /\ \A sig \in Signals :
             /\ (base.signal[sig] = p4est_signal_handler)
                  <=> (base.p4est_abort_handler # NULL)
             /\ SavedHandlers(base)[sig] # p4est_signal_handler
             /\ base.signals_caught = 0 => SavedHandlers(base)[sig] = NULL)
  /\ [][/\ (base.signals_caught = 0 /\ base'.signals_caught = 1)
             => SavedHandlers(base') = base.signal
        /\ (base.signals_caught = 1 /\ base'.signals_caught = 1)
             => /\ SavedHandlers(base') = SavedHandlers(base)
                /\ base'.signal = base.signal
        /\ (base.signals_caught = 1 /\ base'.signals_caught = 0)
             => base'.signal = SavedHandlers(base)
        /\ (base.signals_caught = 0 /\ base'.signals_caught = 0)
             => base'.signal = base.signal]_vars

\* the signals are caught, and the handlers that were in effect before the
\* call are the saved ones
C38_Witness ==
  /\ base.signals_caught = 1
  /\ base.p4est_abort_handler = <<"handler", 2>>
  /\ base.p4est_abort_data = NULL
  /\ base.p4est_base_identifier = -1
  /\ base.system_int_handler = SIG_IGN
  /\ base.system_segv_handler = ProgramHandler
  /\ base.system_usr2_handler = SIG_DFL
  /\ \A sig \in Signals : base.signal[sig] = p4est_signal_handler
  /\ base.frames = <<>>

(***************************************************************************)
(* p4est_int64_lower_bound (src/p4est_base.c).  size, guess, k_low and     *)
(* k_high are C ints.  The sorted array is given by two positions b1 <= b2 *)
(* in 0 .. size: its entries are 10 before b1, 20 from b1 to before b2 and *)
(* 30 from b2 on, so that arrays as long as an int can count are inputs.   *)
(* The build is one with P4EST_ASSERT enabled.                             *)
(***************************************************************************)
\* the largest int
INT_MAX == 2147483647

\* array[i]
ArrayAt(l, i) == IF i < l.b1 THEN 10 ELSE IF i < l.b2 THEN 20 ELSE 30

\* the values (a + b + c) / 2 can have in int arithmetic, for 0 <= a,
\* a <= b + c and c in {0, 1}: the quotient when the sum is an int; when it
\* is not (signed overflow, undefined), the quotient of the sum wrapped to
\* 32 bits, rounded towards zero, and the quotient of the exact sum
IntHalf(a, b, c) ==
  IF a > (INT_MAX - c) - b
  THEN LET wrapped == ((a - INT_MAX - 1) + c) + (b - INT_MAX - 1)
       IN  {wrapped \div 2 + (IF wrapped % 2 # 0 THEN 1 ELSE 0),
            a + ((b - a) + c) \div 2}
  ELSE {(a + b + c) \div 2}

\* the lengths of the arrays: the short ones, and the longest an int can
\* count together with lengths around half of that
LowerBoundSizes ==
  (1 .. MaxSize) \cup {INT_MAX \div 2 + 1, INT_MAX \div 2 + 2, INT_MAX}

\* positions in an array of `size` entries: all of a short array, the ends
\* and the middle of a long one
LowerBoundPositions(size) ==
  IF size <= MaxSize THEN 0 .. size
  ELSE {0, 1, size \div 2, size - 2, size - 1, size}

LowerBoundInit ==
  /\ step = 0
  /\ p4est = TierForest
  /\ iter = [volume |-> FALSE, face |-> FALSE, corner |-> FALSE]
  /\ pc = "p4est_int64_lower_bound"
  /\ top = [t |-> 0, i |-> 0]
  /\ vol = NULL
  /\ face = NULL
  /\ loop_args = NULL
  /\ calls = <<>>
  /\ init_calls = <<>>
  /\ allocs = <<>>
  /\ tier_log = NULL
  /\ face_code = 0
  /\ hanging_face = <<>>
  /\ hanging_edge = <<>>
  /\ decode_ret = NULL
  /\ base = BaseStatics
  /\ earlier = NULL
  /\ \E size \in LowerBoundSizes :
     \E b1 \in LowerBoundPositions(size), b2 \in LowerBoundPositions(size) :
     \E guess \in LowerBoundPositions(size) \ {size} :
     \E target \in {5, 10, 15, 20, 25, 30, 35} :
       /\ b1 <= b2
       /\ lower_bound = [target |-> target, size |-> size, b1 |-> b1,
                         b2 |-> b2, guess0 |-> guess, guess |-> guess,
                         k_low |-> 0, k_high |-> size - 1, ret |-> NULL]

LowerBoundUnchanged ==
  UNCHANGED <<p4est, iter, top, vol, face, loop_args, calls, init_calls,
              allocs, tier_log, lnodes, base, earlier>>

\* lines 112-115
LowerBoundAsserts(l) ==
  /\ l.k_low <= l.k_high
  /\ 0 <= l.k_low /\ l.k_low < l.size
  /\ 0 <= l.k_high /\ l.k_high < l.size
  /\ l.k_low <= l.guess /\ l.guess <= l.k_high

\* an assertion at the head of the loop fails
LowerBoundAssertFails ==
  /\ pc = "p4est_int64_lower_bound"
  /\ Tick
  /\ ~LowerBoundAsserts(lower_bound)
  /\ pc' = "assert_failed"
  /\ UNCHANGED lower_bound
  /\ LowerBoundUnchanged

\* lines 121-125: the guess is not below the target and neither is the entry
\* before it
LowerBoundDown ==
  /\ pc = "p4est_int64_lower_bound"
  /\ Tick
  /\ LowerBoundAsserts(lower_bound)
  /\ lower_bound.target <= ArrayAt(lower_bound, lower_bound.guess)
  /\ lower_bound.guess > 0
  /\ lower_bound.target <= ArrayAt(lower_bound, lower_bound.guess - 1)
  /\ \E g \in IntHalf(lower_bound.k_low, lower_bound.guess - 1, 1) :
       lower_bound' = [lower_bound EXCEPT !.k_high = lower_bound.guess - 1,
                                          !.guess = g]
  /\ UNCHANGED pc
  /\ LowerBoundUnchanged

\* lines 128-135: the guess is below the target
LowerBoundUp ==
  /\ pc = "p4est_int64_lower_bound"
  /\ Tick
  /\ LowerBoundAsserts(lower_bound)
  /\ ~(/\ lower_bound.target <= ArrayAt(lower_bound, lower_bound.guess)
       /\ lower_bound.guess > 0
       /\ lower_bound.target <= ArrayAt(lower_bound, lower_bound.guess - 1))
  /\ lower_bound.target > ArrayAt(lower_bound, lower_bound.guess)
  /\ IF lower_bound.guess + 1 > lower_bound.k_high
     THEN /\ pc' = "return"
          /\ lower_bound' = [lower_bound EXCEPT !.k_low = lower_bound.guess + 1,
                                                !.ret = -1]
     ELSE /\ \E g \in IntHalf(lower_bound.guess + 1, lower_bound.k_high, 0) :
               lower_bound' = [lower_bound EXCEPT
                                 !.k_low = lower_bound.guess + 1,
                                 !.guess = g]
          /\ UNCHANGED pc
  /\ LowerBoundUnchanged

\* lines 137-141: the guess is the position
LowerBoundFound ==
  /\ pc = "p4est_int64_lower_bound"
  /\ Tick
  /\ LowerBoundAsserts(lower_bound)
  /\ lower_bound.target <= ArrayAt(lower_bound, lower_bound.guess)
  /\ ~(/\ lower_bound.guess > 0
       /\ lower_bound.target <= ArrayAt(lower_bound, lower_bound.guess - 1))
  /\ pc' = "return"
  /\ lower_bound' = [lower_bound EXCEPT !.ret = lower_bound.guess]
  /\ LowerBoundUnchanged

LowerBoundNext ==
  \/ LowerBoundAssertFails
  \/ LowerBoundDown
  \/ LowerBoundUp
  \/ LowerBoundFound

LowerBoundSpec == LowerBoundInit /\ [][LowerBoundNext]_vars

\* C37: for every sorted non-empty array, every target and every initial
\* guess in [0, size - 1], no assertion of p4est_int64_lower_bound fails,
\* and the value returned is the smallest index whose entry is not below
\* the target, or -1 when every entry is below it (which does not depend on
\* the guess).
C37_LowerBound ==
  /\ pc # "assert_failed"
  /\ pc = "return" =>
       IF lower_bound.ret = -1
       THEN ArrayAt(lower_bound, lower_bound.size - 1) < lower_bound.target
       ELSE /\ lower_bound.ret \in 0 .. lower_bound.size - 1
            /\ ArrayAt(lower_bound, lower_bound.ret) >= lower_bound.target
            /\ lower_bound.ret > 0 =>
                 ArrayAt(lower_bound, lower_bound.ret - 1) < lower_bound.target

====
